---------------------------- MODULE Spec2Model ----------------------------
(***************************************************************************)
(* A model of the protection layer of aurora_monitor:                      *)
(*   - CircuitBreaker  (aurora_monitor/protection/circuit_breaker.py)      *)
(*   - RateLimiter / TokenBucket (aurora_monitor/protection/rate_limiter.py)*)
(* Time is discrete (one unit = one second).  A timestamp field is         *)
(* modelled by its age, now - timestamp, which is all the code ever reads  *)
(* of it; an age stops growing at the largest value the code compares it   *)
(* with.  Every method that runs under the object's lock is one atomic     *)
(* action; code that runs outside a lock is split at the points where      *)
(* another thread can interleave.                                          *)
(***************************************************************************)
EXTENDS Integers, Sequences, FiniteSets, TLC

\* ------------------------------------------------------------------ bounds
MaxCalls == 3        \* entries into the breaker in one run
NumCallers == 2      \* threads calling through the breaker
MaxThreshold == 2    \* largest failure_threshold / success_threshold / half_open_max_calls
MaxRequests == 3     \* acquire() calls on the rate limiter in one run
NumThreads == 2      \* threads calling the rate limiter
MaxTokens == 2       \* largest `tokens` argument of acquire() / get_wait_time()
MaxWindowCalls == 4  \* acquire() calls on the sliding-window limiter in one run
NumSenders == 2      \* threads calling AlertManager.send()
MaxSends == 3        \* send() calls in one run
MaxHeals == 3        \* heal() / handle_*_pressure() calls in one run
MaxChecks == 3       \* rounds of the watchdog's checks in one run
NumWatched == 4      \* threads the watchdog sees
MaxDetects == 2
MaxCreates == 3
MaxUses == 2
MaxTicks == 3

VARIABLES
    cfg,        \* the breaker's constructor arguments
    cb,         \* the breaker's fields: _state, _half_open_calls, stats, and
                \* elapsed = datetime.now() - _last_state_change
    callers,    \* per calling thread: where it is inside call() / with cb: / cb.protected()
    ret,        \* what the step just taken gave back to its caller (NoRet: nothing)
    budget      \* entries into the breaker the run may still make

breaker_vars == <<cfg, cb, callers, ret, budget>>

VARIABLES
    lcfg,       \* the rate limiter's constructor arguments
    limiter,    \* the limiter's fields: _global_bucket, _client_buckets, stats, _client_stats
    threads,    \* per thread: where it is inside RateLimiter.acquire()
    lret,       \* what the limiter step just taken gave back to its caller
    lbudget,    \* acquire() calls the run may still make
    lclock      \* seconds the limiter's clock, time.time(), has advanced

limiter_vars == <<lcfg, limiter, threads, lret, lbudget, lclock>>

VARIABLES
    wcfg,       \* the sliding-window limiter's constructor arguments
    window,     \* its fields: _requests (each timestamp as its age) and stats
    wret,       \* what the window step just taken gave back to its caller
    wbudget     \* acquire() calls the run may still make

window_vars == <<wcfg, window, wret, wbudget>>

VARIABLES
    acfg,       \* the AlertConfig of the alert manager
    manager,    \* the AlertManager's fields, and what its callbacks and channels received
    senders,    \* per sending thread: its position inside send() and its alert
    aret,       \* what the send() that just ended returned
    abudget     \* send() calls the run may still make

alert_vars == <<acfg, manager, senders, aret, abudget>>

VARIABLES
    hcfg,       \* the AutoHealerConfig, the registered policies' settings, the alert manager
    healer,     \* the AutoHealer's fields, and what its handlers, callbacks and alert manager saw
    hret,       \* what the healer call just made returned
    hbudget     \* healer calls the run may still make

healer_vars == <<hcfg, healer, hret, hbudget>>

VARIABLES
    wdcfg,      \* the WatchdogConfig, and who runs the checks
    watchdog,   \* the ProcessWatchdog's fields, and the threads it tried to interrupt
    blocked,    \* the threads that are blocked in a lock / wait / join right now
    wdbudget    \* rounds of checks the run may still make

watchdog_vars == <<wdcfg, watchdog, blocked, wdbudget>>

VARIABLES
    dcfg,       \* the AnomalyConfig of the anomaly detector
    detector,   \* the AnomalyDetector's fields, and when each key was last emitted
    dret,       \* what the detect() just made found and what it returned
    dbudget     \* detect() calls the run may still make

detector_vars == <<dcfg, detector, dret, dbudget>>

VARIABLES
    monitor,    \* the orchestrator's and the registry's dictionaries, and every instance built
    mret,       \* the instance the create call just made returned
    mbudget     \* create calls the run may still make

monitor_vars == <<monitor, mret, mbudget>>

VARIABLES
    aurora,     \* the started orchestrator: _running, its loops, stop() and the alert queue
    tbudget     \* ticks the loops may still start

aurora_vars == <<aurora, tbudget>>

vars == <<breaker_vars, limiter_vars, window_vars, alert_vars, healer_vars, watchdog_vars, detector_vars, monitor_vars, aurora_vars>>

\* What a step of one component leaves alone: every other component.
not_breaker_vars == <<limiter_vars, window_vars, alert_vars, healer_vars, watchdog_vars, detector_vars, monitor_vars, aurora_vars>>
not_limiter_vars == <<breaker_vars, window_vars, alert_vars, healer_vars, watchdog_vars, detector_vars, monitor_vars, aurora_vars>>
not_window_vars == <<breaker_vars, limiter_vars, alert_vars, healer_vars, watchdog_vars, detector_vars, monitor_vars, aurora_vars>>
not_alert_vars == <<breaker_vars, limiter_vars, window_vars, healer_vars, watchdog_vars, detector_vars, monitor_vars, aurora_vars>>
not_healer_vars == <<breaker_vars, limiter_vars, window_vars, alert_vars, watchdog_vars, detector_vars, monitor_vars, aurora_vars>>
not_watchdog_vars == <<breaker_vars, limiter_vars, window_vars, alert_vars, healer_vars, detector_vars, monitor_vars, aurora_vars>>
not_detector_vars == <<breaker_vars, limiter_vars, window_vars, alert_vars, healer_vars, watchdog_vars, monitor_vars, aurora_vars>>
not_monitor_vars == <<breaker_vars, limiter_vars, window_vars, alert_vars, healer_vars, watchdog_vars, detector_vars, aurora_vars>>
not_aurora_vars == <<breaker_vars, limiter_vars, window_vars, alert_vars, healer_vars, watchdog_vars, detector_vars, monitor_vars>>

Callers == 1..NumCallers

Max(a, b) == IF a >= b THEN a ELSE b
Min(a, b) == IF a <= b THEN a ELSE b

\* ============================================================ CircuitBreaker

CircuitState == {"CLOSED", "OPEN", "HALF_OPEN"}

\* Exception types a protected function may raise, and the breaker's exclusion list.
Exceptions == {"ValueError", "RuntimeError"}
excluded_exceptions == {"ValueError"}

\* CircuitStats: the counters the breaker's decisions and its callers read.
\* (successful_calls, failed_calls, the timestamps and the response times are
\* written by record_success / record_failure and read by to_dict() only.)
CircuitStats ==
    [total_calls |-> 0, rejected_calls |-> 0,
     consecutive_failures |-> 0, consecutive_successes |-> 0]

\* A success that leaves the failures counted.
record_success_keeps_failures(s) ==
    [s EXCEPT !.total_calls = @ + 1, !.consecutive_successes = @ + 1]

record_success(s) ==
    [s EXCEPT !.total_calls = @ + 1,
              !.consecutive_successes = @ + 1, !.consecutive_failures = 0]

record_failure(s) ==
    [s EXCEPT !.total_calls = @ + 1,
              !.consecutive_failures = @ + 1, !.consecutive_successes = 0]

record_rejection(s) == [s EXCEPT !.rejected_calls = @ + 1]

\* A reset attempted one second before the timeout has passed.
should_attempt_reset_early(b) == b.elapsed + 1 >= cfg.timeout

\* elapsed >= self.timeout
should_attempt_reset(b) == b.elapsed >= cfg.timeout

\* An alert manager that gets every transition at info level.
on_circuit_state_change_info(sent, old_state, new_state) ==
    IF cfg.alert_manager
    THEN Append(sent, [level |-> "INFO", old |-> old_state, new |-> new_state])
    ELSE sent

\* AuroraMonitor._on_circuit_state_change, the on_state_change callback of a
\* breaker made by create_circuit_breaker: the alerts sent after this one.
on_circuit_state_change(sent, old_state, new_state) ==
    IF cfg.alert_manager
    THEN Append(sent, [level |-> IF new_state = "OPEN" THEN "CRITICAL" ELSE "INFO",
                       old |-> old_state, new |-> new_state])
    ELSE sent

\* _transition_to: nothing happens when the state is already new_state.
transition_to(b, new_state) ==
    IF b.state = new_state THEN b
    ELSE [b EXCEPT !.state = new_state, !.elapsed = 0, !.half_open_calls = 0,
                   !.successes_since = 0,
                   !.notified = Append(@, <<b.state, new_state>>),
                   !.alerts = on_circuit_state_change(@, b.state, new_state)]

\* The breaker as an operation finds it: notified and alerts hold what the
\* operation in progress has done.
entered(b) == [b EXCEPT !.notified = <<>>, !.alerts = <<>>]

\* The `state` property: the breaker after the read (OPEN turns HALF_OPEN lazily).
state_prop(b) ==
    IF b.state = "OPEN" /\ should_attempt_reset(b)
    THEN transition_to(b, "HALF_OPEN")
    ELSE b

\* _can_execute, evaluated on the breaker as the `state` read left it.
can_execute(b) ==
    CASE b.state = "CLOSED" -> TRUE
      [] b.state = "OPEN" -> FALSE
      [] OTHER -> b.half_open_calls < cfg.half_open_max_calls

is_excluded_exception(exc) == exc \in excluded_exceptions

\* Closing one success after the threshold.
success_closes_late(b, s) ==
    b.state = "HALF_OPEN" /\ s.consecutive_successes > cfg.success_threshold

\* _handle_success, under the lock.
success_closes(b, s) ==
    b.state = "HALF_OPEN" /\ s.consecutive_successes >= cfg.success_threshold

handle_success(b) ==
    LET s == record_success(b.stats)
        b1 == [b EXCEPT !.stats = s, !.successes_since = @ + 1]
    IN  IF success_closes(b, s) THEN transition_to(b1, "CLOSED") ELSE b1

\* Opening one failure after the threshold.
failure_opens_late(b, s) ==
    \/ b.state = "HALF_OPEN"
    \/ b.state = "CLOSED" /\ s.consecutive_failures > cfg.failure_threshold

\* Opening at the threshold in HALF_OPEN as in CLOSED.
failure_opens_at_threshold(b, s) ==
    /\ b.state \in {"CLOSED", "HALF_OPEN"}
    /\ s.consecutive_failures >= cfg.failure_threshold

\* _handle_failure: excluded exceptions return before anything is recorded.
failure_opens(b, s) ==
    \/ b.state = "HALF_OPEN"
    \/ b.state = "CLOSED" /\ s.consecutive_failures >= cfg.failure_threshold

handle_failure(b, exc) ==
    IF is_excluded_exception(exc) THEN b
    ELSE LET s == record_failure(b.stats)
             b1 == [b EXCEPT !.stats = s]
         IN  IF failure_opens(b, s) THEN transition_to(b1, "OPEN") ELSE b1

\* A retry_after that ignores the time already spent in the state.
retry_after_full(b) == cfg.timeout

\* max(0, self.timeout - (datetime.now() - self._last_state_change).total_seconds())
retry_after(b) == Max(0, cfg.timeout - b.elapsed)


Idle == [pc |-> "idle", kind |-> "call", admitted |-> FALSE, probe |-> FALSE, exc |-> "none"]

Running(kind, admitted, probe) ==
    [pc |-> "running", kind |-> kind, admitted |-> admitted, probe |-> probe, exc |-> "none"]

NoRet == [outcome |-> "none", retry_after |-> 0]

Returned(outcome, after) == [outcome |-> outcome, retry_after |-> after]

\* The configurations a breaker is built with.
Configs ==
    [failure_threshold : {1, MaxThreshold},
     success_threshold : {1, MaxThreshold},
     half_open_max_calls : {1, MaxThreshold},
     timeout : {2},
     fallback : BOOLEAN,
     alert_manager : BOOLEAN]

\* CircuitBreaker.__init__. Three fields are no fields of the breaker:
\* successes_since is the number of successes recorded since the breaker entered
\* its state, notified the on_state_change calls (old, new) made by the last
\* operation, and alerts the alerts that operation sent to the alert manager.
NewBreaker ==
    [state |-> "CLOSED", elapsed |-> 0, half_open_calls |-> 0, stats |-> CircuitStats,
     successes_since |-> 0, notified |-> <<>>, alerts |-> <<>>]

InitBreaker(cs, entries) ==
    /\ cfg \in Configs
    /\ cb = NewBreaker
    /\ callers = [c \in cs |-> Idle]
    /\ ret = NoRet
    /\ budget = entries

\* Threads are interchangeable: the next entry is made by the first idle one.
FirstIdle(c) ==
    /\ callers[c].pc = "idle"
    /\ \A d \in DOMAIN callers : d < c => callers[d].pc # "idle"

\* The admission block shared by call() and __enter__ (lines 307-316 / 265-272):
\* the breaker after the block when the call is admitted,
admit(b) ==
    IF b.state = "HALF_OPEN" THEN [b EXCEPT !.half_open_calls = @ + 1] ELSE b

\* and when it is rejected.
reject(b) == [b EXCEPT !.stats = record_rejection(@)]

\* call(func) and the decorator, up to the point where func starts.
Call(c) ==
    /\ FirstIdle(c) /\ budget > 0
    /\ budget' = budget - 1
    /\ LET b == state_prop(entered(cb)) IN
       IF can_execute(b)
       THEN /\ cb' = admit(b)
            /\ callers' = [callers EXCEPT ![c] = Running("call", TRUE, b.state = "HALF_OPEN")]
            /\ ret' = NoRet
       ELSE /\ cb' = reject(b)
            /\ callers' = callers
            /\ ret' = IF cfg.fallback
                      THEN Returned("fallback", 0)
                      ELSE Returned("CircuitBreakerError", retry_after(b))
    /\ UNCHANGED <<cfg, not_breaker_vars>>

\* __enter__ of `with cb:`.
Enter(c) ==
    /\ FirstIdle(c) /\ budget > 0
    /\ budget' = budget - 1
    /\ LET b == state_prop(entered(cb)) IN
       IF can_execute(b)
       THEN /\ cb' = admit(b)
            /\ callers' = [callers EXCEPT ![c] = Running("with", TRUE, b.state = "HALF_OPEN")]
            /\ ret' = NoRet
       ELSE /\ cb' = reject(b)
            /\ callers' = callers
            /\ ret' = Returned("CircuitBreakerError", retry_after(b))
    /\ UNCHANGED <<cfg, not_breaker_vars>>

\* `with cb.protected():` up to the point where the body starts: `with self:`
\* inside a generator. When __enter__ raises CircuitBreakerError and a fallback
\* is set, the generator yields the fallback's value, so the with-statement is
\* entered and its body runs (kind "protected": a body that was not admitted).
Protected(c) ==
    /\ FirstIdle(c) /\ budget > 0
    /\ budget' = budget - 1
    /\ LET b == state_prop(entered(cb)) IN
       IF can_execute(b)
       THEN /\ cb' = admit(b)
            /\ callers' = [callers EXCEPT ![c] = Running("with", TRUE, b.state = "HALF_OPEN")]
            /\ ret' = NoRet
       ELSE /\ cb' = reject(b)
            /\ IF cfg.fallback
               THEN /\ callers' = [callers EXCEPT ![c] = Running("protected", FALSE, FALSE)]
                    /\ ret' = NoRet
               ELSE /\ callers' = callers
                    /\ ret' = Returned("CircuitBreakerError", retry_after(b))
    /\ UNCHANGED <<cfg, not_breaker_vars>>

\* The protected function / body returns normally: _handle_success, then the
\* result goes back to the caller. A body that was not admitted has no __exit__.
FuncReturns(c) ==
    /\ callers[c].pc = "running"
    /\ cb' = IF callers[c].admitted THEN handle_success(entered(cb)) ELSE entered(cb)
    /\ callers' = [callers EXCEPT ![c] = Idle]
    /\ ret' = Returned("result", 0)
    /\ UNCHANGED <<cfg, budget, not_breaker_vars>>

\* The protected function / body raises exc: _handle_failure. __exit__ returns
\* False, so `with cb:` re-raises; call() still has its
\* `if self.fallback and self._state == OPEN` to run, outside the lock.
FuncRaises(c, exc) ==
    /\ callers[c].pc = "running"
    /\ cb' = IF callers[c].admitted THEN handle_failure(entered(cb), exc) ELSE entered(cb)
    /\ IF callers[c].kind = "call"
       THEN /\ callers' = [callers EXCEPT ![c] = [Idle EXCEPT !.pc = "except", !.exc = exc]]
            /\ ret' = NoRet
       ELSE /\ callers' = [callers EXCEPT ![c] = Idle]
            /\ ret' = Returned(exc, 0)
    /\ UNCHANGED <<cfg, budget, not_breaker_vars>>

\* The fallback used after any failure, whatever the state.
fallback_after_failure_always(b) == cfg.fallback

\* call(), lines 326-328: the fallback's value when a fallback is set and the
\* breaker is OPEN now, the original exception otherwise.
fallback_after_failure(b) == cfg.fallback /\ b.state = "OPEN"

CallExcept(c) ==
    /\ callers[c].pc = "except"
    /\ ret' = IF fallback_after_failure(cb)
              THEN Returned("fallback", 0)
              ELSE Returned(callers[c].exc, 0)
    /\ callers' = [callers EXCEPT ![c] = Idle]
    /\ cb' = entered(cb)
    /\ UNCHANGED <<cfg, budget, not_breaker_vars>>

\* A read of the `state` property (get_state, is_open, is_closed, get_stats):
\* the value read is the state the read leaves, cb'.state.
ReadState ==
    /\ cb' = state_prop(entered(cb))
    /\ ret' = NoRet
    /\ UNCHANGED <<cfg, callers, budget, not_breaker_vars>>

\* reset()
Reset ==
    /\ cb' = [transition_to(entered(cb), "CLOSED") EXCEPT
                 !.stats.consecutive_failures = 0, !.stats.consecutive_successes = 0]
    /\ ret' = NoRet
    /\ UNCHANGED <<cfg, callers, budget, not_breaker_vars>>

\* force_open()
ForceOpen ==
    /\ cb' = transition_to(entered(cb), "OPEN")
    /\ ret' = NoRet
    /\ UNCHANGED <<cfg, callers, budget, not_breaker_vars>>

\* The clock advances by one second.
Tick ==
    /\ cb' = [entered(cb) EXCEPT !.elapsed = Min(@ + 1, cfg.timeout)]
    /\ ret' = NoRet
    /\ UNCHANGED <<cfg, callers, budget, not_breaker_vars>>


\* ------------------------------------------------------------ rate limiter
\* rate_limiter.py. One time unit is one second and rates are whole tokens per
\* second, so a count of tokens is an integer. A bucket's _last_update is
\* modelled by its age; the age stops growing once a refill would fill the
\* bucket whatever time is added.

Threads == 1..NumThreads

ClientIds == {"a", "b"}

\* client_id = None
NoClient == "none"

\* A client id with no entry in _client_buckets / _client_stats.
Absent == [absent |-> TRUE]

TokenBucket(rate, burst) == [rate |-> rate, burst |-> burst, tokens |-> burst, age |-> 0]

\* A refill that adds nothing for the time passed.
refill_nothing(b) == [b EXCEPT !.age = 0]

\* TokenBucket._refill
refill(b) == [b EXCEPT !.tokens = Min(b.burst, b.tokens + b.age * b.rate), !.age = 0]

\* A wait computed as if the bucket were empty.
wait_time_empty(b, tokens) == tokens \div b.rate

\* TokenBucket.get_wait_time, on the bucket as its _refill left it.
wait_time(b, tokens) == IF b.tokens >= tokens THEN 0 ELSE (tokens - b.tokens) \div b.rate

RateLimiterStats == [total_requests |-> 0, accepted_requests |-> 0, rejected_requests |-> 0]

record_request(s, accepted) ==
    IF accepted
    THEN [s EXCEPT !.total_requests = @ + 1, !.accepted_requests = @ + 1]
    ELSE [s EXCEPT !.total_requests = @ + 1, !.rejected_requests = @ + 1]

\* The constructor's arguments; per_client_rate = 0 stands for None.
LimiterConfigs ==
    [rate : {1}, burst : {2}, per_client_rate : {0, 1}, per_client_burst : {1},
     raise_on_limit : BOOLEAN]

\* granted is no field of the limiter: it is the number of tokens handed to
\* the requests the limiter accepted.
NewLimiter(c) ==
    [global_bucket  |-> TokenBucket(c.rate, c.burst),
     client_buckets |-> [id \in ClientIds |-> Absent],
     client_stats   |-> [id \in ClientIds |-> Absent],
     stats          |-> RateLimiterStats,
     granted        |-> 0]

IdleThread ==
    [pc |-> "idle", client_id |-> NoClient, tokens |-> 0, seen |-> 0, orphan |-> FALSE,
     decorated |-> FALSE]

NoResult == [outcome |-> "none", wait |-> 0]

Result(outcome, wait) == [outcome |-> outcome, wait |-> wait]

InitLimiter(ts, requests) ==
    /\ lcfg \in LimiterConfigs
    /\ limiter = NewLimiter(lcfg)
    /\ threads = [t \in ts |-> IdleThread]
    /\ lret = NoResult
    /\ lbudget = requests
    /\ lclock = 0

\* A bucket whose lock excludes nobody.
NeverLocked == FALSE

\* A thread is inside `with self._lock` of the limiter's current global bucket.
GlobalLocked == \E t \in DOMAIN threads : threads[t].pc = "take" /\ ~threads[t].orphan

FirstIdleThread(t) ==
    /\ threads[t].pc = "idle"
    /\ \A u \in DOMAIN threads : u < t => threads[u].pc # "idle"

\* The per-client check applies (line 274).
per_client(client_id) == client_id # NoClient /\ lcfg.per_client_rate # 0

\* What the caller gets when acquire() ends with r. Called directly, r itself;
\* through the decorator (__call__, lines 299-303) an exception propagates, and
\* after any returned value, True or False, the wrapped function runs and its
\* result is returned.
wrapper(decorated, r) ==
    IF decorated /\ r.outcome \in {"True", "False"} THEN Result("func", 0) ELSE r

\* RateLimiter.acquire(client_id, tokens), non-blocking, up to the check of
\* TokenBucket.acquire on the global bucket (lock, _refill, `_tokens >= tokens`).
\* A rejection ends the call: record_request(False), then RateLimitExceeded with
\* the bucket's get_wait_time, or False.
AcquireVia(t, client_id, tokens, decorated) ==
    /\ FirstIdleThread(t) /\ lbudget > 0 /\ ~GlobalLocked
    /\ lbudget' = lbudget - 1
    /\ LET b == refill(limiter.global_bucket) IN
       IF b.tokens >= tokens
       THEN /\ limiter' = [limiter EXCEPT !.global_bucket = b]
            /\ threads' = [threads EXCEPT ![t] =
                              [IdleThread EXCEPT !.pc = "take", !.client_id = client_id,
                                                 !.tokens = tokens,
                                                 !.decorated = decorated]]
            /\ lret' = NoResult
       ELSE /\ limiter' = [limiter EXCEPT !.global_bucket = b,
                                          !.stats = record_request(@, FALSE)]
            /\ threads' = threads
            /\ lret' = wrapper(decorated,
                               IF lcfg.raise_on_limit
                               THEN Result("RateLimitExceeded", wait_time(b, tokens))
                               ELSE Result("False", 0))
    /\ UNCHANGED <<lcfg, lclock, not_limiter_vars>>

\* limiter.acquire(client_id, tokens) called directly.
Acquire(t, client_id, tokens) == AcquireVia(t, client_id, tokens, FALSE)

\* A call of a function decorated with the limiter: the wrapper calls
\* self.acquire(client_id=client_id), one token.
Wrapped(t, client_id) == AcquireVia(t, client_id, 1, TRUE)

\* TokenBucket.acquire, line 122-123: `self._tokens -= tokens`, unlock, True.
\* The bucket is the one the thread locked; after a reset() that is no longer
\* the limiter's bucket. Without a per-client check the call ends here.
Take(t) ==
    /\ threads[t].pc = "take"
    /\ LET me == threads[t]
           taken == IF me.orphan THEN limiter
                    ELSE [limiter EXCEPT !.global_bucket.tokens = @ - me.tokens]
       IN  IF per_client(me.client_id)
           THEN /\ limiter' = taken
                /\ threads' = [threads EXCEPT ![t] = [me EXCEPT !.pc = "client", !.orphan = FALSE]]
                /\ lret' = NoResult
           ELSE /\ limiter' = [taken EXCEPT !.stats = record_request(@, TRUE),
                                            !.granted = @ + me.tokens]
                /\ threads' = [threads EXCEPT ![t] = IdleThread]
                /\ lret' = wrapper(me.decorated, Result("True", 0))
    /\ UNCHANGED <<lcfg, lbudget, lclock, not_limiter_vars>>

\* _get_client_bucket
get_client_bucket(client_id) ==
    IF limiter.client_buckets[client_id] = Absent
    THEN TokenBucket(lcfg.per_client_rate, lcfg.per_client_burst)
    ELSE limiter.client_buckets[client_id]

\* _client_stats[client_id] once _get_client_bucket has run.
get_client_stats(client_id) ==
    IF limiter.client_stats[client_id] = Absent
    THEN RateLimiterStats
    ELSE limiter.client_stats[client_id]

\* Lines 275-294: the client's bucket is found or made and asked for the
\* tokens, under its lock. When it refuses, the refund starts: the thread reads
\* the global bucket's _tokens (line 280), holding no lock.
ClientAcquire(t) ==
    /\ threads[t].pc = "client"
    /\ LET me == threads[t]
           id == me.client_id
           b  == refill(get_client_bucket(id))
       IN  IF b.tokens >= me.tokens
           THEN /\ limiter' = [limiter EXCEPT
                                  !.client_buckets[id] = [b EXCEPT !.tokens = @ - me.tokens],
                                  !.client_stats[id] = record_request(get_client_stats(id), TRUE),
                                  !.stats = record_request(@, TRUE),
                                  !.granted = @ + me.tokens]
                /\ threads' = [threads EXCEPT ![t] = IdleThread]
                /\ lret' = wrapper(me.decorated, Result("True", 0))
           ELSE /\ limiter' = [limiter EXCEPT
                                  !.client_buckets[id] = b,
                                  !.client_stats[id] = get_client_stats(id)]
                /\ threads' = [threads EXCEPT ![t] =
                                  [me EXCEPT !.pc = "refund",
                                             !.seen = limiter.global_bucket.tokens]]
                /\ lret' = NoResult
    /\ UNCHANGED <<lcfg, lbudget, lclock, not_limiter_vars>>

\* Lines 278-290: the refund's write, `_tokens = min(burst, <value read> + tokens)`,
\* then the rejection is recorded and reported. _client_stats[client_id] raises
\* KeyError when a reset() has emptied the dict meanwhile.
Refund(t) ==
    /\ threads[t].pc = "refund"
    /\ LET me == threads[t]
           id == me.client_id
           g  == limiter.global_bucket
           refunded == [limiter EXCEPT
                           !.global_bucket.tokens = Min(g.burst, me.seen + me.tokens),
                           !.stats = record_request(@, FALSE)]
       IN  IF limiter.client_stats[id] = Absent
           THEN /\ limiter' = refunded
                /\ lret' = Result("KeyError", 0)
           ELSE LET b == refill(limiter.client_buckets[id]) IN
                /\ limiter' = [refunded EXCEPT
                                  !.client_stats[id] = record_request(@, FALSE),
                                  !.client_buckets[id] =
                                      IF lcfg.raise_on_limit THEN b ELSE @]
                /\ lret' = wrapper(me.decorated,
                                   IF lcfg.raise_on_limit
                                   THEN Result("RateLimitExceeded", wait_time(b, me.tokens))
                                   ELSE Result("False", 0))
    /\ threads' = [threads EXCEPT ![t] = IdleThread]
    /\ UNCHANGED <<lcfg, lbudget, lclock, not_limiter_vars>>

\* RateLimiter.get_wait_time(client_id, tokens)
GetWaitTime(client_id, tokens) ==
    /\ ~GlobalLocked
    /\ LET g == refill(limiter.global_bucket) IN
       IF per_client(client_id) /\ limiter.client_buckets[client_id] # Absent
       THEN LET b == refill(limiter.client_buckets[client_id]) IN
            /\ limiter' = [limiter EXCEPT !.global_bucket = g, !.client_buckets[client_id] = b]
            /\ lret' = Result("wait", Max(wait_time(g, tokens), wait_time(b, tokens)))
       ELSE /\ limiter' = [limiter EXCEPT !.global_bucket = g]
            /\ lret' = Result("wait", wait_time(g, tokens))
    /\ UNCHANGED <<lcfg, threads, lbudget, lclock, not_limiter_vars>>

\* RateLimiter.reset(): a new global bucket (and a new lock), no client left.
\* A thread inside the old bucket's lock goes on with the old bucket.
LimiterReset ==
    /\ limiter' = NewLimiter(lcfg)
    /\ threads' = [t \in DOMAIN threads |->
                      IF threads[t].pc = "take"
                      THEN [threads[t] EXCEPT !.orphan = TRUE] ELSE threads[t]]
    /\ lret' = NoResult
    /\ UNCHANGED <<lcfg, lbudget, lclock, not_limiter_vars>>

\* One second passes for a bucket.
older(b) ==
    IF b = Absent \/ b.tokens + b.age * b.rate >= b.burst THEN b
    ELSE [b EXCEPT !.age = @ + 1]

\* The clock advances by one second.
LimiterTick ==
    /\ limiter' = [limiter EXCEPT
                      !.global_bucket = older(@),
                      !.client_buckets = [id \in ClientIds |-> older(@[id])]]
    /\ limiter' # limiter
    /\ lclock' = lclock + 1
    /\ lret' = NoResult
    /\ UNCHANGED <<lcfg, threads, lbudget, not_limiter_vars>>

\* ---------------------------------------------------- sliding-window limiter
\* SlidingWindowRateLimiter. Every method runs under self._lock, so each is one
\* action. _requests holds the timestamps of the accepted requests, oldest
\* first; a timestamp t is modelled by its age, time.time() - t, which stops
\* growing at window_seconds (`t > cutoff` is `age < window_seconds`).

WindowConfigs ==
    [max_requests : {1, 2}, window_seconds : {1, 2}, raise_on_limit : BOOLEAN]

NewWindow == [requests |-> <<>>, stats |-> RateLimiterStats]

NoAnswer == [outcome |-> "none", value |-> 0]

Answer(outcome, value) == [outcome |-> outcome, value |-> value]

InitWindow(calls) ==
    /\ wcfg \in WindowConfigs
    /\ window = NewWindow
    /\ wret = NoAnswer
    /\ wbudget = calls

\* A cleaning that keeps a timestamp exactly window_seconds old.
clean_old_requests_late(requests) ==
    SelectSeq(requests, LAMBDA age : age <= wcfg.window_seconds)

\* _clean_old_requests: [t for t in self._requests if t > cutoff]
clean_old_requests(requests) ==
    SelectSeq(requests, LAMBDA age : age < wcfg.window_seconds)

\* min(self._requests) if self._requests else time.time(), as an age: the
\* requests are appended in time order, so the first is the oldest.
oldest(requests) == IF requests = <<>> THEN 0 ELSE requests[1]

\* SlidingWindowRateLimiter.acquire()
WindowAcquire ==
    /\ wbudget > 0
    /\ wbudget' = wbudget - 1
    /\ LET kept == clean_old_requests(window.requests) IN
       IF Len(kept) >= wcfg.max_requests
       THEN /\ window' = [requests |-> kept, stats |-> record_request(window.stats, FALSE)]
            /\ wret' = IF wcfg.raise_on_limit
                       THEN Answer("RateLimitExceeded",
                                   Max(0, wcfg.window_seconds - oldest(kept)))
                       ELSE Answer("False", 0)
       ELSE /\ window' = [requests |-> Append(kept, 0),
                          stats |-> record_request(window.stats, TRUE)]
            /\ wret' = Answer("True", 0)
    /\ UNCHANGED <<wcfg, not_window_vars>>

\* SlidingWindowRateLimiter.get_remaining()
GetRemaining ==
    /\ LET kept == clean_old_requests(window.requests) IN
       /\ window' = [window EXCEPT !.requests = kept]
       /\ wret' = Answer("remaining", Max(0, wcfg.max_requests - Len(kept)))
    /\ UNCHANGED <<wcfg, wbudget, not_window_vars>>

\* The clock advances by one second.
WindowTick ==
    /\ window' = [window EXCEPT
                     !.requests = [i \in DOMAIN @ |-> Min(@[i] + 1, wcfg.window_seconds)]]
    /\ wret' = NoAnswer
    /\ UNCHANGED <<wcfg, wbudget, not_window_vars>>

\* ------------------------------------------------------------ alert manager
\* AlertManager. A datetime is modelled by its age, now - t, which stops growing
\* at alert_cooldown. send() takes self._lock three separate times
\* (_should_send, _aggregate, the history block) and runs the callbacks and the
\* queue append outside it, so each of these is a step of its own.

Senders == 1..NumSenders

\* The values of _get_alert_key: f"{level}:{source}:{title}".
AlertKeys == {"k1", "k2"}

\* `channels`: any([email_enabled, slack_enabled, webhook_enabled]).
AlertConfigs ==
    [enabled : BOOLEAN, channels : BOOLEAN, alert_cooldown : {0, 2},
     aggregate_alerts : BOOLEAN]

\* A key with no entry in _last_sent.
NotSent == [sent |-> FALSE, age |-> 0]

\* history, send_queue: the deques; last_sent, aggregates: the dicts (count 0
\* is a key with no AlertAggregate); notified: the alerts the callbacks were
\* called with; dispatched: the alerts handed to _send_to_channels;
\* calls: the send() calls made per key; created: the Alert objects built.
NewManager ==
    [history     |-> <<>>,
     last_sent   |-> [k \in AlertKeys |-> NotSent],
     aggregates  |-> [k \in AlertKeys |-> 0],
     notified    |-> <<>>,
     send_queue  |-> <<>>,
     dispatched  |-> <<>>,
     calls       |-> [k \in AlertKeys |-> 0],
     created     |-> 0]

NoAlert == [id |-> 0, key |-> "none"]

\* `within`: when send() was called, an alert of the same key had been
\* recorded less than alert_cooldown ago.
IdleSender == [pc |-> "idle", alert |-> NoAlert, within |-> FALSE]

NoReturn == [outcome |-> "none", alert |-> NoAlert, within |-> FALSE]

InitAlerts(ts, sends) ==
    /\ acfg \in AlertConfigs
    /\ manager = NewManager
    /\ senders = [t \in ts |-> IdleSender]
    /\ aret = NoReturn
    /\ abudget = sends

FirstIdleSender(t) ==
    /\ senders[t].pc = "idle"
    /\ \A u \in DOMAIN senders : u < t => senders[u].pc # "idle"

\* _should_send
should_send(m, key) ==
    \/ ~m.last_sent[key].sent
    \/ m.last_sent[key].age >= acfg.alert_cooldown

\* An alert of this key was recorded less than alert_cooldown ago.
in_cooldown(m, key) ==
    \E i \in DOMAIN m.history :
        m.history[i].key = key /\ m.history[i].age < acfg.alert_cooldown

\* send() up to the cooldown check (lines 189-203).
Send(t, key) ==
    /\ abudget > 0
    /\ FirstIdleSender(t)
    /\ abudget' = abudget - 1
    /\ IF ~acfg.enabled
       THEN /\ manager' = [manager EXCEPT !.calls[key] = @ + 1]
            /\ aret' = [outcome |-> "None", alert |-> [id |-> 0, key |-> key],
                        within |-> FALSE]
            /\ UNCHANGED senders
       ELSE /\ manager' = [manager EXCEPT !.calls[key] = @ + 1, !.created = @ + 1]
            /\ senders' = [senders EXCEPT ![t] =
                   [pc     |-> IF should_send(manager, key) THEN "record" ELSE "aggregate",
                    alert  |-> [id |-> manager.created + 1, key |-> key],
                    within |-> in_cooldown(manager, key)]]
            /\ aret' = NoReturn
    /\ UNCHANGED <<acfg, not_alert_vars>>

\* _aggregate: the aggregates after one more suppressed alert of the key.
aggregate(aggregates, key) ==
    IF ~acfg.aggregate_alerts THEN aggregates
    ELSE IF aggregates[key] = 0 THEN [aggregates EXCEPT ![key] = 1]
    ELSE [aggregates EXCEPT ![key] = @ + 1]

\* send(), lines 203-205: the suppressed alert is aggregated, None returned.
Aggregate(t) ==
    /\ senders[t].pc = "aggregate"
    /\ manager' = [manager EXCEPT !.aggregates = aggregate(@, senders[t].alert.key)]
    /\ aret' = [outcome |-> "None", alert |-> senders[t].alert,
                within |-> senders[t].within]
    /\ senders' = [senders EXCEPT ![t] = IdleSender]
    /\ UNCHANGED <<acfg, abudget, not_alert_vars>>

\* send(), lines 207-209.
Record(t) ==
    /\ senders[t].pc = "record"
    /\ manager' = [manager EXCEPT
                      !.history = Append(@, [id  |-> senders[t].alert.id,
                                             key |-> senders[t].alert.key,
                                             age |-> 0]),
                      !.last_sent[senders[t].alert.key] = [sent |-> TRUE, age |-> 0]]
    /\ senders' = [senders EXCEPT ![t].pc = "notify"]
    /\ aret' = NoReturn
    /\ UNCHANGED <<acfg, abudget, not_alert_vars>>

\* send(), line 212: _notify_callbacks.
Notify(t) ==
    /\ senders[t].pc = "notify"
    /\ manager' = [manager EXCEPT !.notified = Append(@, senders[t].alert)]
    /\ senders' = [senders EXCEPT ![t].pc = "enqueue"]
    /\ aret' = NoReturn
    /\ UNCHANGED <<acfg, abudget, not_alert_vars>>

\* send(), lines 215-218.
Enqueue(t) ==
    /\ senders[t].pc = "enqueue"
    /\ manager' = IF acfg.channels
                  THEN [manager EXCEPT !.send_queue = Append(@, senders[t].alert)]
                  ELSE manager
    /\ aret' = [outcome |-> "Alert", alert |-> senders[t].alert,
                within |-> senders[t].within]
    /\ senders' = [senders EXCEPT ![t] = IdleSender]
    /\ UNCHANGED <<acfg, abudget, not_alert_vars>>

\* One round of _sender_loop with a non-empty queue. The thread exists only
\* when a channel was enabled at construction (lines 143-144).
SenderLoop ==
    /\ acfg.channels
    /\ manager.send_queue # <<>>
    /\ manager' = [manager EXCEPT !.send_queue = Tail(@),
                                  !.dispatched = Append(@, Head(manager.send_queue))]
    /\ aret' = NoReturn
    /\ UNCHANGED <<acfg, senders, abudget, not_alert_vars>>

\* One more second on a timestamp.
aged(age) == Min(age + 1, acfg.alert_cooldown)

\* The clock advances by one second.
AlertTick ==
    /\ manager' = [manager EXCEPT
          !.history = [i \in DOMAIN @ |-> [@[i] EXCEPT !.age = aged(@)]],
          !.last_sent = [k \in AlertKeys |->
                            IF @[k].sent THEN [@[k] EXCEPT !.age = aged(@)] ELSE @[k]]]
    /\ manager' # manager
    /\ aret' = NoReturn
    /\ UNCHANGED <<acfg, senders, abudget, not_alert_vars>>

\* --------------------------------------------------------------- auto healer
\* AutoHealer. Its callers are tasks of one asyncio event loop (monitor.py
\* _anomaly_loop, _check_thresholds), and no healer method awaits, so every
\* call is one action. One time unit is 30 seconds. A datetime is modelled by
\* its age, which stops growing at the longest cooldown.

\* The anomaly types and metric names the calls are made with: a type with a
\* default policy and one without.
HealedTypes == {"memory_leak", "drop"}

MetricNames == {"m1", "m2"}

HealingResults == {"success", "failed"}

\* _default_policies, cooldowns in units of 30 s.
default_policies ==
    [memory_leak |->
        [actions |-> <<"gc_collect", "cache_clear", "memory_trim">>,
         cooldown |-> 1, max_attempts |-> 5, escalate_on_failure |-> TRUE, enabled |-> TRUE],
     threshold |->
        [actions |-> <<"gc_collect", "cache_clear">>,
         cooldown |-> 2, max_attempts |-> 3, escalate_on_failure |-> TRUE, enabled |-> TRUE],
     cpu_saturation |->
        [actions |-> <<"thread_cleanup">>,
         cooldown |-> 4, max_attempts |-> 2, escalate_on_failure |-> TRUE, enabled |-> TRUE],
     spike |->
        [actions |-> <<"gc_collect">>,
         cooldown |-> 1, max_attempts |-> 3, escalate_on_failure |-> TRUE, enabled |-> TRUE]]

\* enabled, gc_on_memory_pressure, gc_threshold, heal_cooldown: AutoHealerConfig
\* (heal_cooldown 60 s); alert_manager: one was passed to the constructor;
\* max_attempts, escalate_on_failure: the policies were registered again
\* (register_policy) with these values.
HealerConfigs ==
    [enabled : BOOLEAN, gc_on_memory_pressure : {TRUE}, gc_threshold : {80},
     heal_cooldown : {2}, alert_manager : BOOLEAN,
     max_attempts : {1, 2}, escalate_on_failure : BOOLEAN]

\* self._policies after register_policy.
policies ==
    [t \in DOMAIN default_policies |->
        [default_policies[t] EXCEPT !.max_attempts = hcfg.max_attempts,
                                    !.escalate_on_failure = hcfg.escalate_on_failure]]

\* key = f"{anomaly.type.value}:{anomaly.metric_name}"
heal_key(type, metric) == type \o ":" \o metric

HealKeys == {heal_key(type, metric) : type \in HealedTypes, metric \in MetricNames}

\* What a remedy is performed for: an anomaly's key, or one of the pressures.
Causes == HealKeys \cup {"memory_pressure", "cpu_pressure"}

HealingActionTypes == {"gc_collect", "cache_clear", "memory_trim", "thread_cleanup"}

\* The keys of _last_action that are read (Causes) or written (an anomaly
\* type's value, an action type's value).
LastActionKeys == Causes \cup DOMAIN default_policies \cup HealedTypes \cup HealingActionTypes

\* A key with no entry in _last_action.
NotDone == [done |-> FALSE, age |-> 0]

JustDone == [done |-> TRUE, age |-> 0]

\* history, last_action, attempt_count: the fields; executed: every handler
\* run, recorded or not; notified: the actions the on_heal callbacks were
\* called with; alerts: the alerts sent to the alert manager; performed: per
\* cause, when a handler was last run for it.
NewHealer ==
    [history       |-> <<>>,
     last_action   |-> [k \in LastActionKeys |-> NotDone],
     attempt_count |-> [k \in HealKeys |-> 0],
     executed      |-> <<>>,
     notified      |-> <<>>,
     alerts        |-> <<>>,
     performed     |-> [c \in Causes |-> NotDone]]

NoHealing == [outcome |-> "none", action |-> "none", result |-> "none"]

\* The call returned None.
HealedNone == [outcome |-> "None", action |-> "none", result |-> "none"]

\* The call returned a HealingAction.
Healed(action, result) == [outcome |-> "action", action |-> action, result |-> result]

InitHealer(calls) ==
    /\ hcfg \in HealerConfigs
    /\ healer = NewHealer
    /\ hret = NoHealing
    /\ hbudget = calls

\* _can_heal
can_heal(h, key, cooldown) ==
    \/ ~h.last_action[key].done
    \/ h.last_action[key].age >= cooldown

\* A handler run outside _execute_action: nothing but the run itself.
run_handler(h, action_type, result, cause) ==
    [h EXCEPT !.executed = Append(@, [action |-> action_type, result |-> result]),
              !.performed[cause] = JustDone]

\* _send_alert: level and title of the alert.
send_alert(action_type, result) ==
    [level |-> IF result = "success" THEN "info" ELSE "warning", title |-> action_type]

\* _execute_action with a handler that gives `result`; `key` is
\* anomaly.type.value if anomaly else action_type.value (line 334).
execute_action(h, action_type, result, key, cause) ==
    LET action == [action |-> action_type, result |-> result]
        ran == run_handler(h, action_type, result, cause) IN
    [ran EXCEPT !.history = Append(@, action),
                !.last_action[key] = JustDone,
                !.notified = Append(@, action),
                !.alerts = IF hcfg.alert_manager /\ result \in {"success", "failed"}
                           THEN Append(@, send_alert(action_type, result)) ELSE @]

\* A loop that takes no result for a success.
succeeded_never(result) == result = "success" /\ result = "failed"

\* action.result == HealingResult.SUCCESS (line 223)
succeeded(result) == result = "success"

\* An attempt limit that lets one more attempt through.
attempts_exhausted_late(h, key, policy) == h.attempt_count[key] > policy.max_attempts

\* attempts >= policy.max_attempts (lines 216-217)
attempts_exhausted(h, key, policy) == h.attempt_count[key] >= policy.max_attempts

\* The loop of heal() (lines 221-232) from the i-th action of the policy on;
\* results[i] is what the i-th handler gives when it is run.
RECURSIVE heal_actions(_, _, _, _, _, _, _)
heal_actions(h, type, key, policy, results, attempts, i) ==
    IF i > Len(policy.actions) THEN [healer |-> h, ret |-> HealedNone]
    ELSE LET ran == execute_action(h, policy.actions[i], results[i], type, key) IN
         IF succeeded(results[i])
         THEN [healer |-> [ran EXCEPT !.attempt_count[key] = 0],
               ret |-> Healed(policy.actions[i], results[i])]
         ELSE IF policy.escalate_on_failure /\ results[i] = "failed"
         THEN heal_actions([ran EXCEPT !.attempt_count[key] = attempts + 1],
                           type, key, policy, results, attempts, i + 1)
         ELSE heal_actions(ran, type, key, policy, results, attempts, i + 1)

\* What the handlers can give over one pass of n actions; the loop stops at
\* the first success, so what later handlers would give is left out.
HandlerResults(n) ==
    {rs \in [1..n -> HealingResults] :
        \A i, j \in 1..n : (i < j /\ rs[i] = "success") => rs[j] = "success"}

\* heal(anomaly), results: what the handlers give.
heal(h, type, metric, results) ==
    LET key == heal_key(type, metric) IN
    IF ~hcfg.enabled THEN [healer |-> h, ret |-> HealedNone]
    ELSE IF type \notin DOMAIN policies \/ ~policies[type].enabled
    THEN [healer |-> h, ret |-> HealedNone]
    ELSE IF ~can_heal(h, key, policies[type].cooldown)
    THEN [healer |-> h, ret |-> HealedNone]
    ELSE IF attempts_exhausted(h, key, policies[type])
    THEN [healer |-> h, ret |-> HealedNone]
    ELSE heal_actions(h, type, key, policies[type], results, h.attempt_count[key], 1)

\* The number of actions of the type's policy (0 without a policy).
policy_length(type) ==
    IF type \in DOMAIN policies THEN Len(policies[type].actions) ELSE 0

Heal(type, metric, results) ==
    /\ hbudget > 0
    /\ hbudget' = hbudget - 1
    /\ healer' = heal(healer, type, metric, results).healer
    /\ hret' = heal(healer, type, metric, results).ret
    /\ UNCHANGED <<hcfg, not_healer_vars>>

\* handle_memory_pressure(memory_percent); cleared, trimmed: what _cache_clear
\* and the memory-trim handler give. self._gc_collect() gives True.
HandleMemoryPressure(memory_percent, cleared, trimmed) ==
    /\ hbudget > 0
    /\ hbudget' = hbudget - 1
    /\ IF \/ ~hcfg.gc_on_memory_pressure
          \/ memory_percent < hcfg.gc_threshold
          \/ ~can_heal(healer, "memory_pressure", hcfg.heal_cooldown)
       THEN healer' = healer /\ hret' = HealedNone
       ELSE IF memory_percent >= 95
       THEN /\ healer' = execute_action(
                             run_handler(
                                 run_handler(healer, "gc_collect", "success", "memory_pressure"),
                                 "cache_clear", cleared, "memory_pressure"),
                             "memory_trim", trimmed, "memory_trim", "memory_pressure")
            /\ hret' = Healed("memory_trim", trimmed)
       ELSE IF memory_percent >= 90
       THEN /\ healer' = execute_action(healer, "gc_collect", trimmed, "gc_collect",
                                         "memory_pressure")
            /\ hret' = Healed("gc_collect", trimmed)
       ELSE /\ healer' = run_handler(healer, "gc_collect", "success", "memory_pressure")
            /\ hret' = Healed("gc_collect", "success")
    /\ UNCHANGED <<hcfg, not_healer_vars>>

\* handle_cpu_pressure(cpu_percent); cleaned: what the thread-cleanup handler gives.
HandleCpuPressure(cpu_percent, cleaned) ==
    /\ hbudget > 0
    /\ hbudget' = hbudget - 1
    /\ IF cpu_percent < 90 \/ ~can_heal(healer, "cpu_pressure", hcfg.heal_cooldown)
       THEN healer' = healer /\ hret' = HealedNone
       ELSE /\ healer' = execute_action(healer, "thread_cleanup", cleaned, "thread_cleanup",
                                         "cpu_pressure")
            /\ hret' = Healed("thread_cleanup", cleaned)
    /\ UNCHANGED <<hcfg, not_healer_vars>>

\* The cooldowns a timestamp is compared with: heal_cooldown and those of the
\* policies of the anomaly types in use.
Cooldowns ==
    {hcfg.heal_cooldown}
        \cup {policies[t].cooldown : t \in HealedTypes \cap DOMAIN policies}

longest_cooldown == CHOOSE c \in Cooldowns : \A d \in Cooldowns : d <= c

\* One more time unit on a timestamp.
later(stamp) ==
    IF stamp.done THEN [stamp EXCEPT !.age = Min(@ + 1, longest_cooldown)] ELSE stamp

\* The clock advances by one time unit.
HealerTick ==
    /\ healer' = [healer EXCEPT
          !.last_action = [k \in LastActionKeys |-> later(@[k])],
          !.performed = [c \in Causes |-> later(@[c])]]
    /\ healer' # healer
    /\ hret' = NoHealing
    /\ UNCHANGED <<hcfg, hbudget, not_healer_vars>>

\* ----------------------------------------------------------------- watchdog
\* ProcessWatchdog. The checks are run by one thread: the watchdog's own
\* (_monitor_loop, after start()) or the orchestrator's event loop
\* (AuroraMonitor._watchdog_loop, which calls check()). heartbeat() comes
\* from the application's threads and holds _heartbeat_lock throughout;
\* _check_heartbeat holds it only while it reads the age of the last
\* heartbeat, so a heartbeat can arrive between its steps. The last heartbeat
\* is modelled by its age, which stops growing once it is past
\* heartbeat_timeout. The set of live threads does not change.

WatchedThreads == 1..NumWatched

\* threading.main_thread().ident
main_thread == 1

\* driver "loop": _monitor_loop; driver "check": AuroraMonitor._watchdog_loop.
WatchdogConfigs ==
    [heartbeat_timeout : {1, 2}, max_restarts : {1, 2},
     monitor_threads : BOOLEAN, deadlock_detection : BOOLEAN,
     driver : {"loop", "check"}]

\* state, restart_count, potential_deadlocks, events: the fields; elapsed: the
\* age of _last_heartbeat; thread_states: the threads _check_threads recorded
\* and those of them whose stack trace matched a blocking pattern; pc: the
\* next step of the round; interrupted: the threads
\* _interrupt_blocked_threads raised KeyboardInterrupt in; flagged: what
\* the previous deadlock check found blocked; overdue_checks: the heartbeat
\* checks that found the heartbeat overdue; alerts: what the watchdog sent to
\* its alert manager (the orchestrator gives it one when alerts are enabled);
\* heartbeat_pc: the next step of the heartbeat() that holds _heartbeat_lock.
NewWatchdog ==
    [state               |-> "healthy",
     elapsed             |-> 0,
     restart_count       |-> 0,
     thread_states       |-> [tids |-> {}, blocked |-> {}],
     potential_deadlocks |-> {},
     events              |-> <<>>,
     pc                  |-> "sleep",
     interrupted         |-> {},
     flagged             |-> [checked |-> FALSE, tids |-> {}],
     overdue_checks      |-> 0,
     alerts              |-> <<>>,
     heartbeat_pc        |-> "idle"]

InitWatchdog(rounds) ==
    /\ wdcfg \in WatchdogConfigs
    /\ watchdog = NewWatchdog
    /\ blocked = {}
    /\ wdbudget = rounds

WatchdogEvent(event_type, action_taken) ==
    [event_type |-> event_type, action_taken |-> action_taken]

\* _record_event
record_event(w, event) == [w EXCEPT !.events = Append(@, event)]

\* level_map of _transition_state
level_map(new_state) ==
    CASE new_state = "healthy" -> "INFO"
      [] new_state = "degraded" -> "WARNING"
      [] new_state \in {"unresponsive", "deadlocked", "critical"} -> "CRITICAL"
      [] OTHER -> "WARNING"

\* _transition_state: nothing happens when the state is already new_state;
\* otherwise the alert manager gets an alert about the new state.
transition_state(w, new_state) ==
    IF w.state = new_state THEN w
    ELSE [w EXCEPT !.state = new_state,
                   !.alerts = Append(@, [level |-> level_map(new_state), about |-> new_state])]

\* _interrupt_blocked_threads
interrupt_blocked_threads(w) ==
    [w EXCEPT !.interrupted =
        @ \cup {tid \in w.thread_states.tids :
                   tid # main_thread /\ tid \in w.potential_deadlocks}]

\* _attempt_recovery
attempt_recovery(w) ==
    LET counted == [w EXCEPT !.restart_count = @ + 1] IN
    IF counted.restart_count <= wdcfg.max_restarts /\ counted.state = "deadlocked"
    THEN record_event(interrupt_blocked_threads(counted),
                      WatchdogEvent("recovery_attempt", "interrupt_threads"))
    ELSE IF counted.restart_count <= wdcfg.max_restarts /\ counted.state = "unresponsive"
    THEN record_event(counted, WatchdogEvent("recovery_attempt", "force_gc"))
    ELSE record_event(counted, WatchdogEvent("recovery_attempt", "none"))

\* self.config.max_restarts > self._restart_count (line 212)
may_restart(w) == wdcfg.max_restarts > w.restart_count

\* elapsed > self.config.heartbeat_timeout, elapsed read under the lock
overdue(w) == w.elapsed > wdcfg.heartbeat_timeout

\* _check_heartbeat, the body of `if self._state != UNRESPONSIVE` after the
\* transition: the event, and the recovery while restarts are left.
timeout_recorded(w) ==
    LET recorded == record_event(w, WatchdogEvent("heartbeat_timeout", "")) IN
    IF may_restart(recorded) THEN attempt_recovery(recorded) ELSE recorded

\* _check_threads: every live thread is recorded with its stack trace.
check_threads(w) ==
    [w EXCEPT !.thread_states = [tids |-> WatchedThreads, blocked |-> blocked]]

\* blocked_threads of _check_deadlocks (lines 268-275)
blocked_threads(w) == w.thread_states.blocked

\* _check_deadlocks
check_deadlocks(w) ==
    IF Cardinality(blocked_threads(w)) >= 3
    THEN IF w.potential_deadlocks = {}
         THEN [w EXCEPT !.potential_deadlocks = blocked_threads(w)]
         ELSE IF w.potential_deadlocks = blocked_threads(w)
         THEN record_event(transition_state(w, "deadlocked"),
                           WatchdogEvent("deadlock_detected", ""))
         ELSE [w EXCEPT !.potential_deadlocks = blocked_threads(w)]
    ELSE [w EXCEPT !.potential_deadlocks = {}]

\* The check that follows `pc` in a round: _monitor_loop (lines 180-186) runs
\* the thread and deadlock checks when configured, check() (172-173) runs the
\* thread check and no deadlock check.
after(pc) ==
    IF wdcfg.driver = "check"
    THEN (IF pc = "heartbeat" THEN "threads" ELSE "sleep")
    ELSE IF pc = "heartbeat" /\ wdcfg.monitor_threads THEN "threads"
    ELSE IF pc \in {"heartbeat", "threads"} /\ wdcfg.deadlock_detection THEN "deadlocks"
    ELSE "sleep"

\* A round starts with _check_heartbeat, which reads the age of the last
\* heartbeat under the lock.
CheckHeartbeat ==
    /\ watchdog.pc = "sleep"
    /\ watchdog.heartbeat_pc = "idle"
    /\ wdbudget > 0
    /\ wdbudget' = wdbudget - 1
    /\ watchdog' = IF overdue(watchdog)
                   THEN [watchdog EXCEPT !.pc = "timeout", !.overdue_checks = @ + 1]
                   ELSE [watchdog EXCEPT !.pc = after("heartbeat")]
    /\ UNCHANGED <<wdcfg, blocked, not_watchdog_vars>>

\* _check_heartbeat after an overdue heartbeat: the test of the state and the
\* transition to UNRESPONSIVE.
HeartbeatTimeout ==
    /\ watchdog.pc = "timeout"
    /\ watchdog' = IF watchdog.state # "unresponsive"
                   THEN [transition_state(watchdog, "unresponsive") EXCEPT !.pc = "recover"]
                   ELSE [watchdog EXCEPT !.pc = after("heartbeat")]
    /\ UNCHANGED <<wdcfg, blocked, wdbudget, not_watchdog_vars>>

\* _check_heartbeat after the transition: the event and the recovery.
Recover ==
    /\ watchdog.pc = "recover"
    /\ watchdog' = [timeout_recorded(watchdog) EXCEPT !.pc = after("heartbeat")]
    /\ UNCHANGED <<wdcfg, blocked, wdbudget, not_watchdog_vars>>

CheckThreads ==
    /\ watchdog.pc = "threads"
    /\ watchdog' = [check_threads(watchdog) EXCEPT !.pc = after("threads")]
    /\ UNCHANGED <<wdcfg, blocked, wdbudget, not_watchdog_vars>>

CheckDeadlocks ==
    /\ watchdog.pc = "deadlocks"
    /\ watchdog' = [check_deadlocks(watchdog) EXCEPT
                        !.pc = "sleep",
                        !.flagged = [checked |-> TRUE, tids |-> blocked_threads(watchdog)]]
    /\ UNCHANGED <<wdcfg, blocked, wdbudget, not_watchdog_vars>>

\* heartbeat(), under _heartbeat_lock: _last_heartbeat is set and the state is
\* read. The state is written by the checking thread without this lock, so
\* the transition that follows the read is a step of its own.
Heartbeat ==
    /\ watchdog.heartbeat_pc = "idle"
    /\ watchdog.elapsed > 0 \/ watchdog.state = "unresponsive"
    /\ watchdog' = [watchdog EXCEPT
                        !.elapsed = 0,
                        !.heartbeat_pc = IF watchdog.state = "unresponsive"
                                         THEN "transition" ELSE "idle"]
    /\ UNCHANGED <<wdcfg, blocked, wdbudget, not_watchdog_vars>>

\* heartbeat() after it read UNRESPONSIVE: _transition_state(HEALTHY), and the
\* lock is released.
HeartbeatTransition ==
    /\ watchdog.heartbeat_pc = "transition"
    /\ watchdog' = [transition_state(watchdog, "healthy") EXCEPT !.heartbeat_pc = "idle"]
    /\ UNCHANGED <<wdcfg, blocked, wdbudget, not_watchdog_vars>>

\* reset(): the state is assigned, not moved through _transition_state.
WatchdogReset ==
    /\ watchdog.heartbeat_pc = "idle"
    /\ watchdog' = [watchdog EXCEPT !.elapsed = 0, !.state = "healthy",
                                    !.restart_count = 0, !.events = <<>>,
                                    !.potential_deadlocks = {}]
    /\ watchdog' # watchdog
    /\ UNCHANGED <<wdcfg, blocked, wdbudget, not_watchdog_vars>>

\* The clock advances by one time unit.
WatchdogTick ==
    /\ watchdog.elapsed <= wdcfg.heartbeat_timeout
    /\ watchdog' = [watchdog EXCEPT !.elapsed = @ + 1]
    /\ UNCHANGED <<wdcfg, blocked, wdbudget, not_watchdog_vars>>

\* The sets of blocked threads that occur: none, fewer than three, and two
\* different sets of three or more (one of them with the main thread).
BlockedSets == {{}, 2..3, 2..NumWatched, 1..(NumWatched - 1)}

\* Threads block or get going again. The watchdog looks at the threads in
\* _check_threads only, so a change during a round is the same change before
\* or after the round.
ThreadsBlock(tids) ==
    /\ watchdog.pc = "sleep"
    /\ tids # blocked
    /\ blocked' = tids
    /\ UNCHANGED <<wdcfg, watchdog, wdbudget, not_watchdog_vars>>

\* ---------------------------------------------------------- anomaly detector
\* AnomalyDetector. add_sample(), detect() and reset() hold the detector's
\* lock throughout. Of the samples the model keeps their number and the
\* cpu_percent of the last two; what the detectors that read the whole
\* window (outliers, trends, memory leak) find is an input of detect(). The
\* time of a report is modelled by its age in units of 30 seconds, which
\* stops growing once it is past the cooldown.

\* cpu_percent of a sample
CpuValues == {20, 50, 95}
NoSample == -1

DetectorConfigs ==
    [min_samples : {2, 3}, spike_threshold : {3}, trend_window : {300}]

\* An Anomaly, by its type and metric_name.
Anomaly(type, metric_name) == [type |-> type, metric_name |-> metric_name]

\* The anomalies that occur.
Anomalies ==
    {Anomaly("cpu_saturation", "cpu_percent"), Anomaly("outlier", "cpu_percent"),
     Anomaly("spike", "cpu_percent"), Anomaly("drop", "cpu_percent"),
     Anomaly("memory_leak", "memory_percent")}

\* key of _filter_recent
anomaly_key(anomaly) == anomaly.type \o ":" \o anomaly.metric_name

AnomalyKeys == {anomaly_key(a) : a \in Anomalies}

\* _anomaly_cooldown, 60 seconds, in units of 30 seconds
anomaly_cooldown == 2

NotReported == -1

\* self._samples = deque(maxlen=self.config.min_samples * 10)
maxlen == dcfg.min_samples * 10

\* samples: len(_samples); latest, previous: cpu_percent of _samples[-1] and
\* _samples[-2]; recent_anomalies: the age of each key's entry; added: the
\* add_sample() calls since construction or reset(), counted up to
\* min_samples; emitted: the age of each key's last return by detect().
NewDetector ==
    [samples          |-> 0,
     latest           |-> NoSample,
     previous         |-> NoSample,
     recent_anomalies |-> [k \in AnomalyKeys |-> NotReported],
     added            |-> 0,
     emitted          |-> [k \in AnomalyKeys |-> NotReported]]

\* detected: the anomalies the detectors found, in order; returned: what
\* detect() returned.
NoDetection == [called |-> FALSE, detected |-> <<>>, returned |-> <<>>]

InitDetector(calls) ==
    /\ dcfg \in DetectorConfigs
    /\ detector = NewDetector
    /\ dret = NoDetection
    /\ dbudget = calls

\* add_sample
AddSample(cpu) ==
    /\ detector' = [detector EXCEPT
          !.samples = Min(@ + 1, maxlen),
          !.latest = cpu,
          !.previous = detector.latest,
          !.added = Min(@ + 1, dcfg.min_samples)]
    /\ detector' # detector
    /\ dret' = NoDetection
    /\ UNCHANGED <<dcfg, dbudget, not_detector_vars>>

\* A sample count that lets detect() run one sample early.
enough_samples_one_short(d) == d.samples + 1 >= dcfg.min_samples

\* not (len(self._samples) < self.config.min_samples)
enough_samples(d) == d.samples >= dcfg.min_samples

\* _detect_threshold_violations, cpu_percent
detect_threshold_violations(d) ==
    IF d.latest >= 95 THEN <<Anomaly("cpu_saturation", "cpu_percent")>> ELSE <<>>

\* _detect_outliers: the baseline has at least as many samples as _samples
\* has; `found` says whether the z-score of the last value is beyond the
\* sensitivity.
detect_outliers(d, found) ==
    IF found THEN <<Anomaly("outlier", "cpu_percent")>> ELSE <<>>

\* abs(n)
Abs(n) == IF n < 0 THEN -n ELSE n

\* _detect_spikes, cpu_percent
detect_spikes(d) ==
    IF d.samples < 3 THEN <<>>
    ELSE IF d.previous = 0 /\ d.latest <= 0 THEN <<>>
    ELSE IF \/ d.previous = 0
            \/ Abs(d.latest - d.previous) >= dcfg.spike_threshold * Max(Abs(d.previous), 1)
    THEN <<Anomaly(IF d.latest > d.previous THEN "spike" ELSE "drop", "cpu_percent")>>
    ELSE <<>>

\* _detect_trends: `found` says whether the slope of memory_percent over the
\* window is above the threshold.
detect_trends(d, found) ==
    IF Min(dcfg.trend_window \div 5, d.samples) < 10 THEN <<>>
    ELSE IF found THEN <<Anomaly("memory_leak", "memory_percent")>>
    ELSE <<>>

\* _detect_memory_leak: `found` says whether memory_percent grew over the
\* last 100 samples.
detect_memory_leak(d, found) ==
    IF d.samples < 100 THEN <<>>
    ELSE IF found THEN <<Anomaly("memory_leak", "memory_percent")>>
    ELSE <<>>

\* A filter that takes every report for an old one.
reported_recently_never(recent, key) == FALSE

\* not (last_reported is None or (now - last_reported) > self._anomaly_cooldown)
reported_recently(recent, key) ==
    recent[key] # NotReported /\ ~(recent[key] > anomaly_cooldown)

\* _filter_recent: the anomalies kept, and _recent_anomalies afterwards.
RECURSIVE filter_recent(_, _)
filter_recent(anomalies, recent) ==
    IF anomalies = <<>> THEN [filtered |-> <<>>, recent_anomalies |-> recent]
    ELSE LET anomaly == Head(anomalies)
             key == anomaly_key(anomaly) IN
         IF reported_recently(recent, key)
         THEN filter_recent(Tail(anomalies), recent)
         ELSE LET rest == filter_recent(Tail(anomalies), [recent EXCEPT ![key] = 0]) IN
              [rest EXCEPT !.filtered = <<anomaly>> \o @]

\* The anomalies the detectors of detect() find, in the order it calls them.
detected(d, found) ==
    detect_threshold_violations(d) \o detect_outliers(d, found.outlier)
        \o detect_spikes(d) \o detect_trends(d, found.trend)
        \o detect_memory_leak(d, found.leak)

\* What the detectors that read the whole window may find.
Findings == [outlier : BOOLEAN, trend : BOOLEAN, leak : BOOLEAN]

\* detect()
Detect(found) ==
    /\ dbudget > 0
    /\ dbudget' = dbudget - 1
    /\ IF ~enough_samples(detector)
       THEN /\ dret' = [called |-> TRUE, detected |-> <<>>, returned |-> <<>>]
            /\ detector' = detector
       ELSE LET anomalies == detected(detector, found)
                kept == filter_recent(anomalies, detector.recent_anomalies) IN
            /\ dret' = [called |-> TRUE, detected |-> anomalies,
                        returned |-> kept.filtered]
            /\ detector' = [detector EXCEPT
                  !.recent_anomalies = kept.recent_anomalies,
                  !.emitted = [k \in AnomalyKeys |->
                      IF \E i \in DOMAIN kept.filtered : anomaly_key(kept.filtered[i]) = k
                      THEN 0 ELSE @[k]]]
    /\ UNCHANGED <<dcfg, not_detector_vars>>

\* reset()
DetectorReset ==
    /\ detector' = [detector EXCEPT
          !.samples = 0, !.latest = NoSample, !.previous = NoSample,
          !.recent_anomalies = [k \in AnomalyKeys |-> NotReported],
          !.added = 0]
    /\ detector' # detector
    /\ dret' = NoDetection
    /\ UNCHANGED <<dcfg, dbudget, not_detector_vars>>

\* The age a report has 30 seconds later.
report_aged(age) ==
    IF age = NotReported THEN NotReported ELSE Min(age + 1, anomaly_cooldown + 1)

\* The clock advances by 30 seconds.
DetectorTick ==
    /\ detector' = [detector EXCEPT
          !.recent_anomalies = [k \in AnomalyKeys |-> report_aged(@[k])],
          !.emitted = [k \in AnomalyKeys |-> report_aged(@[k])]]
    /\ detector' # detector
    /\ dret' = NoDetection
    /\ UNCHANGED <<dcfg, dbudget, not_detector_vars>>

\* ------------------------------------------------------- orchestrator loops
\* AuroraMonitor after start(), with every component enabled and an alert
\* manager that has an external channel, so that alerts are queued for its
\* sender thread. The four loops are tasks of one event loop, run by the
\* orchestrator's thread; stop() is called from another thread. A loop is at
\* its iteration boundary ("sleep": the `while self._running` test and the
\* asyncio.sleep that ends the iteration), inside an iteration ("tick") or
\* over ("done").

LoopNames == {"metrics", "health_check", "watchdog", "anomaly"}

\* self._thread.join(timeout=5.0), in units of 5 seconds
join_timeout == 1

\* running: _running; tasks: where each loop is; cancelled: the tasks stop()
\* called cancel() on; stop_pc: the next step of stop(); waited: the time
\* stop() has spent in join; send_queue: len(_send_queue) of the alert
\* manager; sender_running: its _sender_running. The alert of start() is in
\* the queue.
NewAurora ==
    [running        |-> TRUE,
     tasks          |-> [l \in LoopNames |-> "sleep"],
     cancelled      |-> {},
     stop_pc        |-> "idle",
     waited         |-> 0,
     send_queue     |-> 1,
     sender_running |-> TRUE]

InitAurora(ticks) ==
    /\ aurora = NewAurora
    /\ tbudget = ticks

\* `while self._running:` found true, the iteration starts.
LoopTick(l) ==
    /\ aurora.tasks[l] = "sleep"
    /\ l \notin aurora.cancelled
    /\ aurora.running
    /\ tbudget > 0
    /\ tbudget' = tbudget - 1
    /\ aurora' = [aurora EXCEPT !.tasks[l] = "tick"]
    /\ UNCHANGED not_aurora_vars

\* The body of an iteration up to its `await asyncio.sleep(...)`; it may have
\* sent an alert (a threshold, a failed health check, a watchdog transition,
\* anomalies).
LoopAwait(l, alerts) ==
    /\ aurora.tasks[l] = "tick"
    /\ aurora' = [aurora EXCEPT !.tasks[l] = "sleep", !.send_queue = @ + alerts]
    /\ UNCHANGED <<tbudget, not_aurora_vars>>

\* The loop ends: CancelledError at the await (`break`, or out of the
\* `except Exception` handler), or `while self._running` found false.
LoopExit(l) ==
    /\ aurora.tasks[l] = "sleep"
    /\ l \in aurora.cancelled \/ ~aurora.running
    /\ aurora' = [aurora EXCEPT !.tasks[l] = "done"]
    /\ UNCHANGED <<tbudget, not_aurora_vars>>

\* stop(), lines 375-379
StopBegin ==
    /\ aurora.stop_pc = "idle"
    /\ aurora.running
    /\ aurora' = [aurora EXCEPT !.running = FALSE, !.stop_pc = "cancel"]
    /\ UNCHANGED <<tbudget, not_aurora_vars>>

\* stop(), lines 381-384: cancel() on every task that is not over.
StopCancel ==
    /\ aurora.stop_pc = "cancel"
    /\ aurora' = [aurora EXCEPT
                     !.cancelled = {l \in LoopNames : aurora.tasks[l] # "done"},
                     !.stop_pc = "join"]
    /\ UNCHANGED <<tbudget, not_aurora_vars>>

\* The orchestrator's thread ends when all its tasks are over.
thread_alive(a) == \E l \in LoopNames : a.tasks[l] # "done"

\* Time passes while stop() waits in join.
JoinWait ==
    /\ aurora.stop_pc = "join"
    /\ thread_alive(aurora)
    /\ aurora.waited < join_timeout
    /\ aurora' = [aurora EXCEPT !.waited = @ + 1]
    /\ UNCHANGED <<tbudget, not_aurora_vars>>

\* stop(), lines 387-388: join returns when the thread has ended or after the
\* timeout.
StopJoin ==
    /\ aurora.stop_pc = "join"
    /\ ~thread_alive(aurora) \/ aurora.waited = join_timeout
    /\ aurora' = [aurora EXCEPT !.stop_pc = "alert"]
    /\ UNCHANGED <<tbudget, not_aurora_vars>>

\* stop(), lines 391-399: the shutdown alert is sent and stop() returns.
StopAlert ==
    /\ aurora.stop_pc = "alert"
    /\ aurora' = [aurora EXCEPT !.send_queue = @ + 1, !.stop_pc = "returned"]
    /\ UNCHANGED <<tbudget, not_aurora_vars>>

\* One round of the alert manager's _sender_loop with a non-empty queue.
SenderRound ==
    /\ aurora.sender_running
    /\ aurora.send_queue > 0
    /\ aurora' = [aurora EXCEPT !.send_queue = @ - 1]
    /\ UNCHANGED <<tbudget, not_aurora_vars>>

\* AlertManager.stop(), called by the application: the sender thread leaves
\* its loop at the next test of _sender_running, the queue stays as it is.
AlertManagerStop ==
    /\ aurora.sender_running
    /\ aurora' = [aurora EXCEPT !.sender_running = FALSE]
    /\ UNCHANGED <<tbudget, not_aurora_vars>>

\* ------------------------------------------------------------------ registry
\* The named circuit breakers and rate limiters of the orchestrator
\* (AuroraMonitor._circuit_breakers, _rate_limiters) and of
\* CircuitBreakerRegistry (_breakers). An instance is its position in
\* `objects`, the instances built so far; its state is the calls it counted.

RegistryNames == {"api", "db"}

NoObject == 0

\* circuit_breakers, rate_limiters: the orchestrator's dictionaries;
\* breakers: CircuitBreakerRegistry._breakers; objects: every CircuitBreaker
\* and RateLimiter constructed, with who constructed it and its stats.
NewMonitor ==
    [circuit_breakers |-> [n \in RegistryNames |-> NoObject],
     rate_limiters    |-> [n \in RegistryNames |-> NoObject],
     breakers         |-> [n \in RegistryNames |-> NoObject],
     objects          |-> <<>>]

InitMonitor(creates) ==
    /\ monitor = NewMonitor
    /\ mret = NoObject
    /\ mbudget = creates

\* CircuitBreaker(name=name, ...) / RateLimiter(name=name, ...)
NewObject(kind, name, owner) ==
    [kind |-> kind, name |-> name, owner |-> owner, total_calls |-> 0]

\* AuroraMonitor.create_circuit_breaker
CreateCircuitBreaker(name) ==
    /\ mbudget > 0
    /\ mbudget' = mbudget - 1
    /\ LET cb_id == Len(monitor.objects) + 1 IN
       /\ monitor' = [monitor EXCEPT
             !.objects = Append(@, NewObject("circuit_breaker", name, "monitor")),
             !.circuit_breakers[name] = cb_id]
       /\ mret' = cb_id
    /\ UNCHANGED not_monitor_vars

\* AuroraMonitor.create_rate_limiter
CreateRateLimiter(name) ==
    /\ mbudget > 0
    /\ mbudget' = mbudget - 1
    /\ LET rl_id == Len(monitor.objects) + 1 IN
       /\ monitor' = [monitor EXCEPT
             !.objects = Append(@, NewObject("rate_limiter", name, "monitor")),
             !.rate_limiters[name] = rl_id]
       /\ mret' = rl_id
    /\ UNCHANGED not_monitor_vars

\* CircuitBreakerRegistry.get_or_create, called from one thread
GetOrCreate(name) ==
    /\ mbudget > 0
    /\ mbudget' = mbudget - 1
    /\ IF monitor.breakers[name] = NoObject
       THEN LET cb_id == Len(monitor.objects) + 1 IN
            /\ monitor' = [monitor EXCEPT
                  !.objects = Append(@, NewObject("circuit_breaker", name, "registry")),
                  !.breakers[name] = cb_id]
            /\ mret' = cb_id
       ELSE /\ monitor' = monitor
            /\ mret' = monitor.breakers[name]
    /\ UNCHANGED not_monitor_vars

\* A call through an instance: its stats count it.
InstanceCall(id) ==
    /\ id \in DOMAIN monitor.objects
    /\ monitor.objects[id].total_calls < MaxUses
    /\ monitor' = [monitor EXCEPT !.objects[id].total_calls = @ + 1]
    /\ mret' = NoObject
    /\ UNCHANGED <<mbudget, not_monitor_vars>>

\* ----------------------------------------------------------- specifications

\* The component a specification does not exercise stays as constructed.
BreakerUnused ==
    /\ cfg = [failure_threshold |-> 1, success_threshold |-> 1,
              half_open_max_calls |-> 1, timeout |-> 2, fallback |-> FALSE]
    /\ cb = NewBreaker
    /\ callers = [c \in Callers |-> Idle]
    /\ ret = NoRet
    /\ budget = 0

LimiterUnused ==
    /\ lcfg = [rate |-> 1, burst |-> 2, per_client_rate |-> 0, per_client_burst |-> 1,
               raise_on_limit |-> FALSE]
    /\ limiter = NewLimiter(lcfg)
    /\ threads = [t \in Threads |-> IdleThread]
    /\ lret = NoResult
    /\ lbudget = 0
    /\ lclock = 0

WindowUnused ==
    /\ wcfg = [max_requests |-> 1, window_seconds |-> 1, raise_on_limit |-> FALSE]
    /\ window = NewWindow
    /\ wret = NoAnswer
    /\ wbudget = 0

AlertsUnused ==
    /\ acfg = [enabled |-> TRUE, channels |-> FALSE, alert_cooldown |-> 0,
               aggregate_alerts |-> TRUE]
    /\ manager = NewManager
    /\ senders = [t \in {1} |-> IdleSender]
    /\ aret = NoReturn
    /\ abudget = 0

HealerUnused ==
    /\ hcfg = [enabled |-> TRUE, gc_on_memory_pressure |-> TRUE, gc_threshold |-> 80,
               heal_cooldown |-> 2, alert_manager |-> FALSE,
               max_attempts |-> 1, escalate_on_failure |-> TRUE]
    /\ healer = NewHealer
    /\ hret = NoHealing
    /\ hbudget = 0

WatchdogUnused ==
    /\ wdcfg = [heartbeat_timeout |-> 1, max_restarts |-> 1, monitor_threads |-> TRUE,
                deadlock_detection |-> TRUE, driver |-> "loop"]
    /\ watchdog = NewWatchdog
    /\ blocked = {}
    /\ wdbudget = 0

DetectorUnused ==
    /\ dcfg = [min_samples |-> 2, spike_threshold |-> 3, trend_window |-> 300]
    /\ detector = NewDetector
    /\ dret = NoDetection
    /\ dbudget = 0

MonitorUnused ==
    /\ monitor = NewMonitor
    /\ mret = NoObject
    /\ mbudget = 0

AuroraUnused ==
    /\ aurora = NewAurora
    /\ tbudget = 0

BreakerOnly ==
    /\ LimiterUnused
    /\ WindowUnused
    /\ AlertsUnused
    /\ HealerUnused
    /\ WatchdogUnused
    /\ DetectorUnused
    /\ MonitorUnused
    /\ AuroraUnused
LimiterOnly ==
    /\ BreakerUnused
    /\ WindowUnused
    /\ AlertsUnused
    /\ HealerUnused
    /\ WatchdogUnused
    /\ DetectorUnused
    /\ MonitorUnused
    /\ AuroraUnused
WindowOnly ==
    /\ BreakerUnused
    /\ LimiterUnused
    /\ AlertsUnused
    /\ HealerUnused
    /\ WatchdogUnused
    /\ DetectorUnused
    /\ MonitorUnused
    /\ AuroraUnused
AlertsOnly ==
    /\ BreakerUnused
    /\ LimiterUnused
    /\ WindowUnused
    /\ HealerUnused
    /\ WatchdogUnused
    /\ DetectorUnused
    /\ MonitorUnused
    /\ AuroraUnused
HealerOnly ==
    /\ BreakerUnused
    /\ LimiterUnused
    /\ WindowUnused
    /\ AlertsUnused
    /\ WatchdogUnused
    /\ DetectorUnused
    /\ MonitorUnused
    /\ AuroraUnused
WatchdogOnly ==
    /\ BreakerUnused
    /\ LimiterUnused
    /\ WindowUnused
    /\ AlertsUnused
    /\ HealerUnused
    /\ DetectorUnused
    /\ MonitorUnused
    /\ AuroraUnused
DetectorOnly ==
    /\ BreakerUnused
    /\ LimiterUnused
    /\ WindowUnused
    /\ AlertsUnused
    /\ HealerUnused
    /\ WatchdogUnused
    /\ MonitorUnused
    /\ AuroraUnused
MonitorOnly ==
    /\ BreakerUnused
    /\ LimiterUnused
    /\ WindowUnused
    /\ AlertsUnused
    /\ HealerUnused
    /\ WatchdogUnused
    /\ DetectorUnused
    /\ AuroraUnused
AuroraOnly ==
    /\ BreakerUnused
    /\ LimiterUnused
    /\ WindowUnused
    /\ AlertsUnused
    /\ HealerUnused
    /\ WatchdogUnused
    /\ DetectorUnused
    /\ MonitorUnused

Init == InitBreaker(Callers, MaxCalls) /\ BreakerOnly

Next ==
    \/ Tick
    \/ \E c \in DOMAIN callers : Call(c)
    \/ \E c \in DOMAIN callers : Enter(c)
    \/ \E c \in DOMAIN callers : Protected(c)
    \/ \E c \in DOMAIN callers : FuncReturns(c)
    \/ \E c \in DOMAIN callers, exc \in Exceptions : FuncRaises(c, exc)
    \/ \E c \in DOMAIN callers : CallExcept(c)
    \/ ReadState
    \/ Reset
    \/ ForceOpen

\* The breaker used by any number of threads through every entry point.
Spec == Init /\ [][Next]_vars

\* The breaker under calls alone (call() and `with cb:`), one more thread and
\* one more entry than Spec, no reset() / force_open() / protected().
ProbeCallers == 1..(NumCallers + 1)

InitProbes == InitBreaker(ProbeCallers, MaxCalls + 1) /\ BreakerOnly

NextProbes ==
    \/ Tick
    \/ \E c \in DOMAIN callers : Call(c)
    \/ \E c \in DOMAIN callers : Enter(c)
    \/ \E c \in DOMAIN callers : FuncReturns(c)
    \/ \E c \in DOMAIN callers, exc \in Exceptions : FuncRaises(c, exc)
    \/ \E c \in DOMAIN callers : CallExcept(c)

SpecProbes == InitProbes /\ [][NextProbes]_vars

\* The rate limiter used by several threads, with and without client ids.
InitRateLimiter == InitLimiter(Threads, MaxRequests) /\ LimiterOnly

NextLimiter ==
    \/ LimiterTick
    \/ \E t \in DOMAIN threads, id \in ClientIds \cup {NoClient}, n \in 1..MaxTokens :
           Acquire(t, id, n)
    \/ \E t \in DOMAIN threads : Take(t)
    \/ \E t \in DOMAIN threads : ClientAcquire(t)
    \/ \E t \in DOMAIN threads : Refund(t)
    \/ \E id \in ClientIds \cup {NoClient}, n \in 1..MaxTokens : GetWaitTime(id, n)
    \/ LimiterReset

SpecLimiter == InitRateLimiter /\ [][NextLimiter]_vars

\* The limiter as acquire() with its default arguments uses it: no client id,
\* one token per request, several threads, two more requests than SpecLimiter.
InitBucket == InitLimiter(Threads, MaxRequests + 2) /\ LimiterOnly

NextBucket ==
    \/ LimiterTick
    \/ \E t \in DOMAIN threads : Acquire(t, NoClient, 1)
    \/ \E t \in DOMAIN threads : Take(t)
    \/ GetWaitTime(NoClient, 1)

SpecBucket == InitBucket /\ [][NextBucket]_vars

\* The limiter under acquire() and get_wait_time() alone, with and without
\* client ids: SpecLimiter without reset().
NextClients ==
    \/ LimiterTick
    \/ \E t \in DOMAIN threads, id \in ClientIds \cup {NoClient}, n \in 1..MaxTokens :
           Acquire(t, id, n)
    \/ \E t \in DOMAIN threads : Take(t)
    \/ \E t \in DOMAIN threads : ClientAcquire(t)
    \/ \E t \in DOMAIN threads : Refund(t)
    \/ \E id \in ClientIds \cup {NoClient}, n \in 1..MaxTokens : GetWaitTime(id, n)

SpecClients == InitRateLimiter /\ [][NextClients]_vars

\* acquire() with client ids on a limiter whose global burst is larger than any
\* request, one more request than SpecLimiter.
RefundConfigs ==
    [rate : {1}, burst : {MaxTokens + 1}, per_client_rate : {1}, per_client_burst : {1},
     raise_on_limit : BOOLEAN]

InitRefunds ==
    /\ lcfg \in RefundConfigs
    /\ limiter = NewLimiter(lcfg)
    /\ threads = [t \in Threads |-> IdleThread]
    /\ lret = NoResult
    /\ lbudget = MaxRequests + 1
    /\ lclock = 0
    /\ LimiterOnly

NextRefunds ==
    \/ LimiterTick
    \/ \E t \in DOMAIN threads, id \in ClientIds \cup {NoClient}, n \in 1..MaxTokens :
           Acquire(t, id, n)
    \/ \E t \in DOMAIN threads : Take(t)
    \/ \E t \in DOMAIN threads : ClientAcquire(t)
    \/ \E t \in DOMAIN threads : Refund(t)

SpecRefunds == InitRefunds /\ [][NextRefunds]_vars

\* The same operations called by one thread, one after the other.
InitSequential == InitLimiter({1}, MaxRequests) /\ LimiterOnly

SpecSequential == InitSequential /\ [][NextClients]_vars

\* Functions decorated with the limiter, called from several threads.
NextDecorated ==
    \/ LimiterTick
    \/ \E t \in DOMAIN threads, id \in ClientIds \cup {NoClient} : Wrapped(t, id)
    \/ \E t \in DOMAIN threads : Take(t)
    \/ \E t \in DOMAIN threads : ClientAcquire(t)
    \/ \E t \in DOMAIN threads : Refund(t)

SpecDecorated == InitRateLimiter /\ [][NextDecorated]_vars

\* The sliding-window limiter.
InitSlidingWindow == InitWindow(MaxWindowCalls) /\ WindowOnly

NextWindow == WindowTick \/ WindowAcquire \/ GetRemaining

SpecWindow == InitSlidingWindow /\ [][NextWindow]_vars

\* The alert manager with concurrent senders.
InitAlertManager == InitAlerts(Senders, MaxSends) /\ AlertsOnly

NextAlerts ==
    \/ AlertTick
    \/ SenderLoop
    \/ \E t \in DOMAIN senders :
          \/ \E key \in AlertKeys : Send(t, key)
          \/ Aggregate(t)
          \/ Record(t)
          \/ Notify(t)
          \/ Enqueue(t)

SpecAlerts == InitAlertManager /\ [][NextAlerts]_vars

\* The alert manager with one sender: send() calls made one after the other.
InitOneSender == InitAlerts({1}, MaxSends) /\ AlertsOnly

SpecOneSender == InitOneSender /\ [][NextAlerts]_vars

\* The auto healer.
InitAutoHealer == InitHealer(MaxHeals) /\ HealerOnly

\* The percentages the pressure handlers are called with: below the
\* threshold, moderate, high, critical.
Percents == {70, 85, 92, 96}

NextHeal ==
    \/ HealerTick
    \/ \E type \in HealedTypes, metric \in MetricNames :
          \E results \in HandlerResults(policy_length(type)) : Heal(type, metric, results)

NextHealer ==
    \/ HealerTick
    \/ \E type \in HealedTypes, metric \in MetricNames :
          \E results \in HandlerResults(policy_length(type)) : Heal(type, metric, results)
    \/ \E percent \in Percents, cleared, trimmed \in HealingResults :
          HandleMemoryPressure(percent, cleared, trimmed)
    \/ \E percent \in Percents, cleaned \in HealingResults :
          HandleCpuPressure(percent, cleaned)

SpecHealer == InitAutoHealer /\ [][NextHealer]_vars

\* The auto healer, enabled and with an alert manager, fed with anomalies only.
InitHeal == InitAutoHealer /\ hcfg.enabled /\ hcfg.alert_manager

SpecHeal == InitHeal /\ [][NextHeal]_vars

\* The auto healer called by the threshold check only.
NextPressure ==
    \/ HealerTick
    \/ \E percent \in Percents, cleared, trimmed \in HealingResults :
          HandleMemoryPressure(percent, cleared, trimmed)
    \/ \E percent \in Percents, cleaned \in HealingResults :
          HandleCpuPressure(percent, cleaned)

SpecPressure == InitAutoHealer /\ [][NextPressure]_vars

\* The watchdog.
InitProcessWatchdog == InitWatchdog(MaxChecks) /\ WatchdogOnly

NextWatchdog ==
    \/ WatchdogTick
    \/ Heartbeat
    \/ HeartbeatTransition
    \/ CheckHeartbeat
    \/ HeartbeatTimeout
    \/ Recover
    \/ CheckThreads
    \/ CheckDeadlocks
    \/ \E tids \in BlockedSets : ThreadsBlock(tids)

SpecWatchdog == InitProcessWatchdog /\ [][NextWatchdog]_vars

\* The watchdog with reset() called at any moment.
NextWatchdogReset ==
    \/ NextWatchdog
    \/ WatchdogReset

SpecWatchdogReset == InitProcessWatchdog /\ [][NextWatchdogReset]_vars

InitAnomalyDetector == InitDetector(MaxDetects) /\ DetectorOnly

\* add_sample() and detect() calls as time passes.
NextDetector ==
    \/ \E cpu \in CpuValues : AddSample(cpu)
    \/ \E found \in Findings : Detect(found)
    \/ DetectorTick

SpecDetector == InitAnomalyDetector /\ [][NextDetector]_vars

\* add_sample(), detect() and reset() calls within 30 seconds.
NextSamples ==
    \/ \E cpu \in CpuValues : AddSample(cpu)
    \/ \E found \in Findings : Detect(found)
    \/ DetectorReset

SpecSamples == InitAnomalyDetector /\ [][NextSamples]_vars

InitRegistry == InitMonitor(MaxCreates) /\ MonitorOnly

NextRegistry ==
    \/ \E name \in RegistryNames : CreateCircuitBreaker(name)
    \/ \E name \in RegistryNames : CreateRateLimiter(name)
    \/ \E name \in RegistryNames : GetOrCreate(name)
    \/ \E id \in 1..MaxCreates : InstanceCall(id)

\* The started orchestrator, its loops ticking, until and after stop(). The
\* event loop runs every task that can run, stop() goes on once called, time
\* passes and the sender thread works while it runs; whether and when stop()
\* and AlertManager.stop() are called is up to the application.
InitShutdown == InitAurora(MaxTicks) /\ AuroraOnly

NextShutdown ==
    \/ \E l \in LoopNames : LoopTick(l)
    \/ \E l \in LoopNames, alerts \in 0..1 : LoopAwait(l, alerts)
    \/ \E l \in LoopNames : LoopExit(l)
    \/ StopBegin
    \/ StopCancel
    \/ JoinWait
    \/ StopJoin
    \/ StopAlert
    \/ SenderRound
    \/ AlertManagerStop

SpecShutdown ==
    /\ InitShutdown
    /\ [][NextShutdown]_vars
    /\ \A l \in LoopNames : WF_vars(\E alerts \in 0..1 : LoopAwait(l, alerts))
    /\ \A l \in LoopNames : WF_vars(LoopExit(l))
    /\ WF_vars(StopCancel)
    /\ WF_vars(JoinWait)
    /\ WF_vars(StopJoin)
    /\ WF_vars(StopAlert)
    /\ WF_vars(SenderRound)

SpecRegistry == InitRegistry /\ [][NextRegistry]_vars

\* ------------------------------------------------------- the claims' vocabulary

\* Thread c enters the breaker, through any of its entry points.
Entry(c) == Call(c) \/ Enter(c) \/ Protected(c)

\* An admitted call of thread c ends with a failure the breaker records.
RecordedFailure(c, exc) ==
    FuncRaises(c, exc) /\ callers[c].admitted /\ exc \notin excluded_exceptions

\* An admitted call of thread c ends with a success.
RecordedSuccess(c) == FuncReturns(c) /\ callers[c].admitted

\* The admitted probe calls (admitted while HALF_OPEN) that are still running.
ProbesInFlight == {c \in DOMAIN callers : callers[c].pc = "running" /\ callers[c].probe}

\* --------------------------------------------------------------------- C1
\* C1: a CLOSED breaker opens exactly when the consecutive recorded failures
\* reach failure_threshold: while CLOSED the count is below the threshold, each
\* recorded failure adds one to it, and the failure that makes it equal to the
\* threshold (and no earlier one) leaves the breaker OPEN.
C1_OpensExactlyAtThreshold ==
    /\ [](cb.state = "CLOSED" => cb.stats.consecutive_failures < cfg.failure_threshold)
    /\ [][\A c \in DOMAIN callers, exc \in Exceptions :
            (RecordedFailure(c, exc) /\ cb.state = "CLOSED") =>
                /\ cb'.stats.consecutive_failures = cb.stats.consecutive_failures + 1
                /\ cb'.state =
                     IF cb.stats.consecutive_failures + 1 = cfg.failure_threshold
                     THEN "OPEN" ELSE "CLOSED"]_vars

\* failure_threshold = 2: the second consecutive failure has just opened the breaker.
C1_Witness ==
    /\ cfg.failure_threshold = 2 /\ cb.state = "OPEN" /\ cb.elapsed = 0
    /\ cb.stats.consecutive_failures = 2 /\ cb.stats.total_calls = 2
    /\ ret.outcome = "RuntimeError"

\* --------------------------------------------------------------------- C2
\* C2: while the breaker is OPEN and less than timeout seconds passed since the
\* last state change, every entry (call(), decorator, context manager) is
\* rejected: the protected function/body does not run and rejected_calls grows
\* by one.
C2_NoEntryWhileOpen ==
    [][\A c \in DOMAIN callers :
         (Entry(c) /\ cb.state = "OPEN" /\ cb.elapsed < cfg.timeout) =>
             /\ callers'[c].pc = "idle"
             /\ cb'.stats.rejected_calls = cb.stats.rejected_calls + 1]_vars

\* --------------------------------------------------------------------- C3
\* C3: OPEN becomes HALF_OPEN only in a state read or a call attempt made when
\* at least timeout seconds passed since the last state change, and every such
\* read or attempt observes HALF_OPEN.
C3_HalfOpenOnlyLazily ==
    /\ [][(cb.state = "OPEN" /\ cb'.state = "HALF_OPEN") =>
            /\ cb.elapsed >= cfg.timeout
            /\ (ReadState \/ \E c \in DOMAIN callers : Entry(c))]_vars
    /\ [][((ReadState \/ \E c \in DOMAIN callers : Entry(c))
            /\ cb.state = "OPEN" /\ cb.elapsed >= cfg.timeout) =>
                cb'.state = "HALF_OPEN"]_vars
    /\ [][((ReadState \/ \E c \in DOMAIN callers : Entry(c))
            /\ cb.state = "OPEN" /\ cb.elapsed < cfg.timeout) =>
                cb'.state = "OPEN"]_vars

\* A state read has just moved the breaker to HALF_OPEN (no probe admitted yet).
C3_Witness ==
    /\ cb.state = "HALF_OPEN" /\ cb.elapsed = 0 /\ cb.half_open_calls = 0
    /\ cb.stats.consecutive_failures = cfg.failure_threshold
    /\ \A c \in DOMAIN callers : callers[c].pc = "idle"

\* --------------------------------------------------------------------- C4
\* C4: a recorded failure while HALF_OPEN leaves the breaker OPEN, whatever the
\* counters are.
C4_HalfOpenFailureReopens ==
    [][\A c \in DOMAIN callers, exc \in Exceptions :
         (RecordedFailure(c, exc) /\ cb.state = "HALF_OPEN") =>
             (cb'.state = "OPEN" /\ cb'.elapsed = 0)]_vars

\* A probe has just failed with the failure count below failure_threshold, and
\* the breaker is OPEN; another probe of the same HALF_OPEN period still runs.
C4_Witness ==
    /\ cb.state = "OPEN" /\ cb.elapsed = 0 /\ ret.outcome = "RuntimeError"
    /\ cb.stats.consecutive_failures = 1 /\ cfg.failure_threshold = 2
    /\ ProbesInFlight # {}

\* --------------------------------------------------------------------- C5
\* C5: a success recorded while HALF_OPEN closes the breaker iff it brings
\* consecutive_successes to success_threshold or more, and nothing but such a
\* success (or an explicit reset()) moves HALF_OPEN to CLOSED.
C5_ClosesAtSuccessThreshold ==
    /\ [][\A c \in DOMAIN callers :
            (RecordedSuccess(c) /\ cb.state = "HALF_OPEN") =>
                cb'.state =
                    IF cb.stats.consecutive_successes + 1 >= cfg.success_threshold
                    THEN "CLOSED" ELSE "HALF_OPEN"]_vars
    /\ [][(cb.state = "HALF_OPEN" /\ cb'.state = "CLOSED") =>
            \/ Reset
            \/ \E c \in DOMAIN callers :
                   /\ RecordedSuccess(c)
                   /\ cb'.stats.consecutive_successes >= cfg.success_threshold]_vars

\* success_threshold = 2: the first probe succeeded and the breaker is still
\* HALF_OPEN.
C5_Witness ==
    /\ cfg.success_threshold = 2 /\ ~cfg.fallback
    /\ cb.state = "HALF_OPEN" /\ cb.half_open_calls = 1
    /\ cb.stats.consecutive_successes = 1 /\ cb.stats.total_calls = 2
    /\ ret.outcome = "result"

\* --------------------------------------------------------------------- C6
\* C6: while the breaker is HALF_OPEN at most half_open_max_calls admitted probe
\* calls are in flight.
C6_ProbesInFlightBounded ==
    cb.state = "HALF_OPEN" => Cardinality(ProbesInFlight) <= cfg.half_open_max_calls

\* --------------------------------------------------------------------- C7
\* C7: an excluded exception raised by an admitted call leaves the breaker as it
\* was and reaches the caller as the exception itself.
C7_ExcludedPassesThrough ==
    [][\A c \in DOMAIN callers :
         /\ \A exc \in excluded_exceptions :
               (FuncRaises(c, exc) /\ callers[c].admitted) =>
                   /\ cb' = cb
                   /\ callers[c].kind = "with" => ret'.outcome = exc
         /\ (CallExcept(c) /\ callers[c].exc \in excluded_exceptions) =>
                ret'.outcome = callers[c].exc]_vars

\* --------------------------------------------------------------------- C8
\* C8: call() on a breaker that is OPEN before its timeout, or HALF_OPEN with
\* every probe slot used, does not run the function, counts a rejection, and
\* gives back the fallback's value when a fallback is set and otherwise raises
\* CircuitBreakerError with retry_after = max(0, timeout - time since the last
\* state change); in every other state call() runs the function.
CannotAdmit ==
    \/ cb.state = "OPEN" /\ cb.elapsed < cfg.timeout
    \/ cb.state = "HALF_OPEN" /\ cb.half_open_calls >= cfg.half_open_max_calls

C8_RejectedCallFailsFast ==
    [][\A c \in DOMAIN callers :
         /\ (Call(c) /\ CannotAdmit) =>
               /\ callers'[c].pc = "idle"
               /\ cb'.stats.rejected_calls = cb.stats.rejected_calls + 1
               /\ cb'.state = cb.state
               /\ ret' = IF cfg.fallback
                         THEN [outcome |-> "fallback", retry_after |-> 0]
                         ELSE [outcome |-> "CircuitBreakerError",
                               retry_after |-> Max(0, cfg.timeout - cb.elapsed)]
         /\ (Call(c) /\ ~CannotAdmit) =>
               /\ callers'[c].pc = "running"
               /\ cb'.stats.rejected_calls = cb.stats.rejected_calls]_vars

\* call() has just been rejected by a HALF_OPEN breaker whose probe slots are
\* all used, one second after the breaker turned HALF_OPEN.
C8_Witness ==
    /\ ~cfg.fallback /\ ret.outcome = "CircuitBreakerError" /\ ret.retry_after = 1
    /\ cb.state = "HALF_OPEN" /\ cb.elapsed = 1
    /\ cb.half_open_calls = cfg.half_open_max_calls
    /\ cb.stats.rejected_calls = 1

\* --------------------------------------------------------------------- C9
\* C9 as stated: the failure of an admitted call() reaches the caller as the
\* fallback's result whenever a fallback is configured, as the original error
\* otherwise.
C9_FallbackReplacesError ==
    [][\A c \in DOMAIN callers :
         (CallExcept(c) /\ callers[c].exc \notin excluded_exceptions) =>
             ret'.outcome = IF cfg.fallback THEN "fallback" ELSE callers[c].exc]_vars

\* C9 amended: a recorded failure of an admitted call is counted first
\* (total_calls and consecutive_failures grow by one) and then re-raised as the
\* original error; only call(), and only when a fallback is configured and the
\* breaker is OPEN when call() looks at it after recording, gives back the
\* fallback's result instead. `with cb:` always re-raises.
C9_RecordedThenReraisedUnlessOpenFallback ==
    /\ [][\A c \in DOMAIN callers, exc \in Exceptions :
            RecordedFailure(c, exc) =>
                /\ cb'.stats.total_calls = cb.stats.total_calls + 1
                /\ cb'.stats.consecutive_failures = cb.stats.consecutive_failures + 1
                /\ callers[c].kind = "with" => ret'.outcome = exc
                /\ callers[c].kind = "call" =>
                       (callers'[c].pc = "except" /\ callers'[c].exc = exc)]_vars
    /\ [][\A c \in DOMAIN callers :
            (CallExcept(c) /\ callers[c].exc \notin excluded_exceptions) =>
                ret'.outcome = IF cfg.fallback /\ cb.state = "OPEN"
                               THEN "fallback" ELSE callers[c].exc]_vars

\* A fallback is configured, a call() was admitted, its failure was recorded and
\* opened the breaker, and the caller got the fallback's result (no call was
\* ever rejected, so the result does not come from a rejection).
C9_Witness ==
    /\ cfg.fallback /\ ret.outcome = "fallback"
    /\ cb.state = "OPEN" /\ cb.stats.rejected_calls = 0
    /\ cb.stats.consecutive_failures = cfg.failure_threshold
    /\ cb.stats.total_calls = cfg.failure_threshold

\* -------------------------------------------------------------------- C10
\* C10: the global bucket and every client's bucket always hold at least 0 and
\* at most burst tokens.
InBounds(b) == b = Absent \/ (0 <= b.tokens /\ b.tokens <= b.burst)

C10_TokensWithinBounds ==
    /\ InBounds(limiter.global_bucket)
    /\ \A id \in ClientIds : InBounds(limiter.client_buckets[id])

\* -------------------------------------------------------------------- C11
\* C11: starting from a full bucket with one-token requests, a request is
\* granted iff fewer than burst + rate * (seconds passed) requests were granted
\* before it: the first burst requests succeed and the next is rejected; each
\* 1/rate seconds that pass let exactly one more succeed.
C11_BurstThenOnePerInterval ==
    [][\A t \in DOMAIN threads :
         Acquire(t, NoClient, 1) =>
             /\ (threads'[t].pc = "take") <=>
                    (limiter.stats.accepted_requests < lcfg.burst + lcfg.rate * lclock)
             /\ (threads'[t].pc # "take") =>
                    /\ lret'.outcome = IF lcfg.raise_on_limit
                                       THEN "RateLimitExceeded" ELSE "False"
                    /\ limiter'.stats.rejected_requests =
                           limiter.stats.rejected_requests + 1]_vars

\* burst requests were granted and one rejected at once; one second later one
\* more was granted and the next has just been rejected.
C11_Witness ==
    /\ lclock = 1 /\ lret.outcome = "False"
    /\ limiter.stats.accepted_requests = lcfg.burst + 1
    /\ limiter.stats.rejected_requests = 2
    /\ limiter.global_bucket.tokens = 0 /\ limiter.global_bucket.age = 0

\* -------------------------------------------------------------------- C12
\* C12: when a request that took its tokens from the global bucket is refused
\* by its client's bucket, the call is reported as rejected and the global
\* bucket gets the tokens back: its count grows by the tokens the request took,
\* capped at burst.
C12_ClientRejectionRefundsGlobal ==
    [][\A t \in DOMAIN threads :
         Refund(t) =>
             /\ lret'.outcome = IF lcfg.raise_on_limit THEN "RateLimitExceeded" ELSE "False"
             /\ limiter'.stats.rejected_requests = limiter.stats.rejected_requests + 1
             /\ limiter'.global_bucket.tokens =
                    Min(limiter.global_bucket.burst,
                        limiter.global_bucket.tokens + threads[t].tokens)]_vars

\* -------------------------------------------------------------------- C13
\* C13: with concurrent acquire() calls and no client id, the check and the
\* decrement of the bucket are one atomic step: the tokens are still there when
\* a thread that passed the check takes them, and the requests granted never
\* exceed burst plus the tokens refilled (rate * seconds passed).
GrantedRequests ==
    limiter.stats.accepted_requests
        + Cardinality({t \in DOMAIN threads : threads[t].pc = "take"})

C13_GrantsNeverExceedCapacity ==
    /\ [](GrantedRequests <= lcfg.burst + lcfg.rate * lclock)
    /\ [][\A t \in DOMAIN threads :
            Take(t) => /\ limiter.global_bucket.tokens >= threads[t].tokens
                       /\ limiter'.global_bucket.tokens =
                              limiter.global_bucket.tokens - threads[t].tokens]_vars

\* No second has passed, every request of the run was made, and exactly burst
\* of them were granted.
C13_Witness ==
    /\ lclock = 0 /\ lbudget = 0
    /\ limiter.stats.total_requests = MaxRequests + 2
    /\ limiter.stats.accepted_requests = lcfg.burst
    /\ limiter.global_bucket.tokens = 0

\* -------------------------------------------------------------------- C14
\* C14: an acquire() that does not get its tokens, from the global bucket or
\* from its client's bucket, ends with RateLimitExceeded when raise_on_limit is
\* set and with False otherwise, and adds one to rejected_requests; accepted
\* and rejected requests always add up to total_requests.
Rejected(t) ==
    \/ Refund(t)
    \/ \E id \in ClientIds \cup {NoClient}, n \in 1..MaxTokens :
           Acquire(t, id, n) /\ threads'[t].pc = "idle"

C14_RejectionsReportedAndCounted ==
    /\ [](limiter.stats.accepted_requests + limiter.stats.rejected_requests
              = limiter.stats.total_requests)
    /\ [][\A t \in DOMAIN threads :
            Rejected(t) =>
                /\ lret'.outcome = IF lcfg.raise_on_limit
                                   THEN "RateLimitExceeded" ELSE "False"
                /\ limiter'.stats.rejected_requests =
                       limiter.stats.rejected_requests + 1]_vars

\* -------------------------------------------------------------------- C15
\* C15: a call of a decorated function whose acquisition does not get its
\* tokens raises RateLimitExceeded and does not run the function, whatever
\* raise_on_limit is.
RejectedCall(t) ==
    \/ Refund(t) /\ threads[t].decorated
    \/ \E id \in ClientIds \cup {NoClient} : Wrapped(t, id) /\ threads'[t].pc = "idle"

C15_DecoratedRunsOnlyWhenAcquired ==
    [][\A t \in DOMAIN threads :
         RejectedCall(t) => lret'.outcome = "RateLimitExceeded"]_vars

\* -------------------------------------------------------------------- C16
\* The tokens a bucket would hold if it were refilled now.
available(b) == Min(b.burst, b.tokens + b.age * b.rate)

\* The wait get_wait_time owes for a bucket: 0 when the tokens are available
\* now, deficit / rate otherwise.
expected_wait(b, tokens) ==
    IF available(b) >= tokens THEN 0 ELSE (tokens - available(b)) \div b.rate

\* C16 as stated: get_wait_time() leaves the limiter's state as it was.
C16_GetWaitTimeMutatesNothing ==
    [][\A id \in ClientIds \cup {NoClient}, n \in 1..MaxTokens :
         GetWaitTime(id, n) => limiter' = limiter]_vars

\* C16 amended: get_wait_time() returns 0 when the tokens are available now and
\* deficit / rate otherwise (with a client id whose bucket exists, the larger
\* of the global and the client wait); it consumes no token and changes no
\* statistics and no client entry, but it does run the lazy refill: the buckets
\* it reads come out with tokens = min(burst, tokens + elapsed * rate) and
\* last_update = now.
C16_GetWaitTimeOnlyRefills ==
    [][\A id \in ClientIds \cup {NoClient}, n \in 1..MaxTokens :
         GetWaitTime(id, n) =>
             LET g == limiter.global_bucket
                 read == per_client(id) /\ limiter.client_buckets[id] # Absent
             IN  /\ lret'.outcome = "wait"
                 /\ lret'.wait =
                        IF read
                        THEN Max(expected_wait(g, n),
                                 expected_wait(limiter.client_buckets[id], n))
                        ELSE expected_wait(g, n)
                 /\ limiter'.global_bucket =
                        [g EXCEPT !.tokens = available(g), !.age = 0]
                 /\ \A c \in ClientIds :
                        limiter'.client_buckets[c] =
                            IF read /\ c = id
                            THEN [limiter.client_buckets[c] EXCEPT
                                     !.tokens = available(limiter.client_buckets[c]),
                                     !.age = 0]
                            ELSE limiter.client_buckets[c]
                 /\ limiter'.stats = limiter.stats
                 /\ limiter'.client_stats = limiter.client_stats
                 /\ threads' = threads]_vars

\* One second after two tokens were taken, get_wait_time(tokens=2) has just
\* refilled the global bucket to 1 token and reported a wait of 1 second.
C16_Witness ==
    /\ lret = [outcome |-> "wait", wait |-> 1]
    /\ lclock = 1 /\ limiter.stats.accepted_requests = 1
    /\ limiter.global_bucket.tokens = 1 /\ limiter.global_bucket.age = 0

\* -------------------------------------------------------------------- C17
\* The accepted requests whose timestamps lie within the trailing window.
InWindow(w) ==
    Cardinality({i \in DOMAIN w.requests : w.requests[i] < wcfg.window_seconds})

\* C17: the accepted requests within the trailing window never exceed
\* max_requests; acquire() accepts iff fewer than max_requests of them are in
\* the window, and then one more is; get_remaining() returns max_requests
\* minus their number.
C17_WindowNeverExceedsMax ==
    /\ [](InWindow(window) <= wcfg.max_requests)
    /\ [][WindowAcquire =>
            /\ (wret'.outcome = "True") <=> (InWindow(window) < wcfg.max_requests)
            /\ wret'.outcome \in {"True", IF wcfg.raise_on_limit
                                          THEN "RateLimitExceeded" ELSE "False"}
            /\ InWindow(window') =
                   InWindow(window) + (IF wret'.outcome = "True" THEN 1 ELSE 0)]_vars
    /\ [][GetRemaining =>
            /\ wret' = Answer("remaining", wcfg.max_requests - InWindow(window))
            /\ InWindow(window') = InWindow(window)]_vars

\* max_requests = 2, window 2 s: both slots were used, the older request has
\* expired, and a third request has just been accepted.
C17_Witness ==
    /\ wcfg.max_requests = 2 /\ wcfg.window_seconds = 2
    /\ window.stats.accepted_requests = 3 /\ window.stats.rejected_requests = 1
    /\ wret.outcome = "True" /\ window.requests = <<1, 0>>

\* -------------------------------------------------------------------- C18
\* The entries of a sequence of alerts that carry the key.
OfKey(alerts, key) == Cardinality({i \in DOMAIN alerts : alerts[i].key = key})

\* C18: with aggregation enabled, when the second send() of a key, made within
\* the cooldown window of the first, has returned, there is exactly one
\* dispatched alert of the key (one history entry, one callback round) and its
\* aggregate count is 2.
C18_SecondSendAggregatedCountTwo ==
    (/\ acfg.enabled
     /\ acfg.aggregate_alerts
     /\ aret.outcome # "none"
     /\ aret.within
     /\ manager.calls[aret.alert.key] = 2)
        => /\ aret.outcome = "None"
           /\ OfKey(manager.history, aret.alert.key) = 1
           /\ OfKey(manager.notified, aret.alert.key) = 1
           /\ manager.aggregates[aret.alert.key] = 2

\* -------------------------------------------------------------------- C19
\* C19: for each key at most one alert is recorded (history, callbacks, queue)
\* per cooldown window, and every other send() of the key inside the window
\* returns None.
C19_AtMostOnePerCooldown ==
    /\ \A key \in AlertKeys :
          Cardinality({i \in DOMAIN manager.history :
                          /\ manager.history[i].key = key
                          /\ manager.history[i].age < acfg.alert_cooldown}) <= 1
    /\ (aret.outcome # "none" /\ aret.within) => aret.outcome = "None"

\* -------------------------------------------------------------------- C20
\* The position of an alert in the history: the order in which send()
\* accepted the alerts.
accepted_at(id) == CHOOSE i \in DOMAIN manager.history : manager.history[i].id = id

\* C20: the worker hands the alerts to the channels in the order in which
\* send() accepted them: of two dispatched alerts with the same key the one
\* accepted first is dispatched first, and no alert is dispatched twice.
C20_DispatchedInSendOrder ==
    \A i, j \in DOMAIN manager.dispatched :
        i < j =>
            /\ manager.dispatched[i].id # manager.dispatched[j].id
            /\ manager.dispatched[i].key = manager.dispatched[j].key
                   => accepted_at(manager.dispatched[i].id)
                          < accepted_at(manager.dispatched[j].id)

\* -------------------------------------------------------------------- C21
\* A handler was run for the cause less than `cooldown` ago.
performed_within(cause, cooldown) ==
    healer.performed[cause].done /\ healer.performed[cause].age < cooldown

\* C21: heal(anomaly) is a no-op (nothing executed, history unchanged, None
\* returned) whenever a healing action for the same (type, metric) key was
\* executed less than the policy's cooldown ago.
C21_HealRespectsCooldown ==
    [][\A type \in HealedTypes \cap DOMAIN policies, metric \in MetricNames :
         \A results \in HandlerResults(policy_length(type)) :
            (/\ Heal(type, metric, results)
             /\ performed_within(heal_key(type, metric), policies[type].cooldown))
                => healer' = healer /\ hret' = HealedNone]_vars

\* -------------------------------------------------------------------- C22
\* The handler runs of the step just taken.
executed_now ==
    [i \in 1..(Len(healer'.executed) - Len(healer.executed)) |->
        healer'.executed[Len(healer.executed) + i]]

\* C22: heal() executes no action once the attempt count of the key has
\* reached max_attempts; a heal() whose actions all failed adds one to the
\* count when escalate_on_failure is set (and leaves it alone otherwise), and
\* a success resets it to zero. The count never exceeds max_attempts.
C22_AttemptsBounded ==
    /\ [](\A key \in HealKeys : healer.attempt_count[key] <= hcfg.max_attempts)
    /\ [][\A type \in HealedTypes \cap DOMAIN policies, metric \in MetricNames :
            \A results \in HandlerResults(policy_length(type)) :
              Heal(type, metric, results) =>
                LET key == heal_key(type, metric)
                    count == healer.attempt_count[key]
                    ran == executed_now IN
                /\ count >= policies[type].max_attempts
                       => healer' = healer /\ hret' = HealedNone
                /\ \A other \in HealKeys \ {key} :
                       healer'.attempt_count[other] = healer.attempt_count[other]
                /\ healer'.attempt_count[key] =
                       IF ran = <<>> THEN count
                       ELSE IF \E i \in DOMAIN ran : ran[i].result = "success" THEN 0
                       ELSE IF policies[type].escalate_on_failure THEN count + 1
                       ELSE count]_vars

\* max_attempts = 2: two heal() calls of one key failed with all their
\* actions, the third call has just returned None without running anything.
C22_Witness ==
    /\ hcfg.max_attempts = 2
    /\ healer.attempt_count[heal_key("memory_leak", "m1")] = 2
    /\ Len(healer.executed) = 6
    /\ hbudget = 0
    /\ hret = HealedNone

\* -------------------------------------------------------------------- C23
\* C23: a heal() of a MEMORY_LEAK anomaly runs a prefix of gc-collect,
\* cache-clear, memory-trim, in that order: every run but the last was no
\* success, and a run that is not followed by the next action was a success.
C23_MemoryLeakOrder ==
    [][\A metric \in MetricNames :
         \A results \in HandlerResults(policy_length("memory_leak")) :
            Heal("memory_leak", metric, results) =>
                LET ran == executed_now
                    order == <<"gc_collect", "cache_clear", "memory_trim">> IN
                /\ Len(ran) <= Len(order)
                /\ \A i \in DOMAIN ran :
                      /\ ran[i].action = order[i]
                      /\ i < Len(ran) => ran[i].result # "success"
                /\ (ran # <<>> /\ Len(ran) < Len(order))
                       => ran[Len(ran)].result = "success"
                /\ healer'.history = healer.history \o ran]_vars

\* gc-collect failed, cache-clear succeeded, and memory-trim was not run.
C23_Witness ==
    /\ healer.executed = << [action |-> "gc_collect", result |-> "failed"],
                            [action |-> "cache_clear", result |-> "success"] >>
    /\ hret = Healed("cache_clear", "success")

\* -------------------------------------------------------------------- C24
\* C24: after handle_memory_pressure() has performed a remedy, a call of it
\* less than heal_cooldown later performs nothing and returns None.
C24_MemoryPressureCooldown ==
    [][\A percent \in Percents, cleared, trimmed \in HealingResults :
         (/\ HandleMemoryPressure(percent, cleared, trimmed)
          /\ performed_within("memory_pressure", hcfg.heal_cooldown))
             => healer' = healer /\ hret' = HealedNone]_vars

\* -------------------------------------------------------------------- C25
\* C25: every healing action that was executed is in the history, was passed
\* to the on_heal callbacks, and was reported to the alert manager (when there
\* is one) at info level on success and warning level on failure.
C25_EveryActionRecordedAndReported ==
    /\ healer.history = healer.executed
    /\ healer.notified = healer.executed
    /\ hcfg.alert_manager =>
          /\ Len(healer.alerts) = Len(healer.executed)
          /\ \A i \in DOMAIN healer.executed :
                /\ healer.alerts[i].title = healer.executed[i].action
                /\ healer.alerts[i].level =
                       IF healer.executed[i].result = "success" THEN "info" ELSE "warning"

\* -------------------------------------------------------------------- C26
\* The recovery attempts among the recorded events.
recovery_attempts ==
    Cardinality({i \in DOMAIN watchdog.events :
                    watchdog.events[i].event_type = "recovery_attempt"})

\* The heartbeat_timeout events among the recorded events.
timeouts_recorded ==
    Cardinality({i \in DOMAIN watchdog.events :
                    watchdog.events[i].event_type = "heartbeat_timeout"})

\* No heartbeat check is under way.
between_checks == watchdog.pc \notin {"timeout", "recover"}

\* C26: every check that finds more than heartbeat_timeout passed since the
\* last heartbeat leaves the watchdog UNRESPONSIVE at its transition, records
\* a heartbeat_timeout event and attempts a recovery, the attempts never
\* exceeding max_restarts: between checks there are as many heartbeat_timeout
\* events as checks that found the heartbeat overdue, and as many recovery
\* attempts, up to max_restarts.
C26_EveryOverdueCheckRecordsAndRecovers ==
    between_checks =>
        /\ watchdog.restart_count <= wdcfg.max_restarts
        /\ timeouts_recorded = watchdog.overdue_checks
        /\ recovery_attempts =
              IF watchdog.overdue_checks <= wdcfg.max_restarts
              THEN watchdog.overdue_checks ELSE wdcfg.max_restarts

\* -------------------------------------------------------------------- C27
\* C27: a deadlock check that flags the same set of blocked threads (three or
\* more, the number the check asks for) as the check before it declares
\* DEADLOCKED and tries to interrupt those threads; a first check, or a check
\* that flags another set than the one before, does not declare DEADLOCKED.
C27_SameSetTwiceDeadlocked ==
    [][CheckDeadlocks =>
         LET now == blocked_threads(watchdog)
             again == watchdog.flagged.checked /\ watchdog.flagged.tids = now IN
         /\ (again /\ Cardinality(now) >= 3)
                => /\ watchdog'.state = "deadlocked"
                   /\ (now \ {main_thread}) \subseteq watchdog'.interrupted
         /\ (~again /\ watchdog.state # "deadlocked")
                => watchdog'.state # "deadlocked"]_vars

\* -------------------------------------------------------------------- C28
\* C28: a detect() made while fewer than min_samples samples were added
\* since the detector was built or last reset returns no anomaly, whatever
\* the samples are.
C28_NoAnomalyBelowMinSamples ==
    [][((\E found \in Findings : Detect(found))
            /\ detector.added < dcfg.min_samples)
          => dret'.returned = <<>>]_vars

\* After a reset() that followed a reported CPU saturation, one sample short
\* of min_samples with the last cpu_percent at 95: detect() returned nothing.
C28_Witness ==
    /\ dret.called
    /\ detector.added = dcfg.min_samples - 1
    /\ detector.latest = 95
    /\ detector.emitted[anomaly_key(Anomaly("cpu_saturation", "cpu_percent"))] # NotReported
    /\ dret.returned = <<>>

\* -------------------------------------------------------------------- C29
\* The keys of a list of anomalies.
keys_of(anomalies) == [i \in DOMAIN anomalies |-> anomaly_key(anomalies[i])]

\* C29: an anomaly detect() returns has a key that was not returned in the
\* 60 seconds before and is returned once by this call; an anomaly the
\* detectors found whose key was never returned, or was returned more than
\* 60 seconds ago, is returned, whatever was returned under other keys.
C29_DedupPerKey ==
    [][(\E found \in Findings : Detect(found)) =>
         LET returned == keys_of(dret'.returned)
             found_keys == keys_of(dret'.detected) IN
         /\ \A i \in DOMAIN returned :
               /\ \/ detector.emitted[returned[i]] = NotReported
                  \/ detector.emitted[returned[i]] >= anomaly_cooldown
               /\ \A j \in DOMAIN returned : returned[j] = returned[i] => j = i
         /\ \A i \in DOMAIN found_keys :
               (\/ detector.emitted[found_keys[i]] = NotReported
                \/ detector.emitted[found_keys[i]] > anomaly_cooldown)
                  => \E j \in DOMAIN returned : returned[j] = found_keys[i]]_vars

\* detect() found a CPU saturation, reported 30 or 60 seconds before, and a
\* spike, and returned the spike alone.
C29_Witness ==
    /\ dret.called
    /\ dret.detected = <<Anomaly("cpu_saturation", "cpu_percent"),
                         Anomaly("spike", "cpu_percent")>>
    /\ dret.returned = <<Anomaly("spike", "cpu_percent")>>
    /\ detector.emitted[anomaly_key(Anomaly("cpu_saturation", "cpu_percent"))] \in 1..anomaly_cooldown
    /\ detector.emitted[anomaly_key(Anomaly("spike", "cpu_percent"))] = 0

\* -------------------------------------------------------------------- C30
\* The instances the orchestrator built of one kind under one name.
built(kind, name) ==
    {id \in DOMAIN monitor.objects :
        /\ monitor.objects[id].owner = "monitor"
        /\ monitor.objects[id].kind = kind
        /\ monitor.objects[id].name = name}

\* C30: the orchestrator never builds two circuit breakers, or two rate
\* limiters, under one name; a create call under a registered name returns
\* the registered instance and leaves every instance and its counters as
\* they were.
C30_CreateOrGet ==
    /\ [](\A name \in RegistryNames :
            /\ Cardinality(built("circuit_breaker", name)) <= 1
            /\ Cardinality(built("rate_limiter", name)) <= 1)
    /\ [][\A name \in RegistryNames :
            /\ (CreateCircuitBreaker(name) /\ monitor.circuit_breakers[name] # NoObject)
                  => /\ mret' = monitor.circuit_breakers[name]
                     /\ monitor'.objects = monitor.objects
            /\ (CreateRateLimiter(name) /\ monitor.rate_limiters[name] # NoObject)
                  => /\ mret' = monitor.rate_limiters[name]
                     /\ monitor'.objects = monitor.objects]_vars

\* -------------------------------------------------------------------- C34
\* C34 (as stated): a success recorded while the breaker is HALF_OPEN or OPEN
\* leaves the consecutive counters as they are, but for the success it counts:
\* consecutive_failures is not set back to zero.
C34_OnlyClosedResets ==
    [][\A c \in DOMAIN callers :
         (RecordedSuccess(c) /\ cb.state \in {"HALF_OPEN", "OPEN"}) =>
             cb'.stats.consecutive_failures = cb.stats.consecutive_failures]_vars

\* C34 (amended): a success recorded in any state, CLOSED, HALF_OPEN or OPEN,
\* sets consecutive_failures to zero and adds one to consecutive_successes;
\* no success sets consecutive_successes back.
C34_EverySuccessResetsFailures ==
    [][\A c \in DOMAIN callers :
         RecordedSuccess(c) =>
             /\ cb'.stats.consecutive_failures = 0
             /\ cb'.stats.consecutive_successes = cb.stats.consecutive_successes + 1]_vars

\* failure_threshold = 1, success_threshold = 2: a failure opened the breaker
\* and the success recorded after it, the second call, left it HALF_OPEN with
\* no consecutive failure.
C34_Witness ==
    /\ cfg.failure_threshold = 1 /\ cfg.success_threshold = 2
    /\ cb.state = "HALF_OPEN"
    /\ cb.stats.total_calls = 2
    /\ cb.stats.consecutive_successes = 1
    /\ cb.stats.consecutive_failures = 0
    /\ ret.outcome = "result"

\* -------------------------------------------------------------------- C38
\* C38: the success that closes a HALF_OPEN breaker is at least the
\* success_threshold-th success recorded since the breaker entered HALF_OPEN;
\* successes recorded before that do not count.
C38_ClosesOnSuccessesSinceHalfOpen ==
    [][\A c \in DOMAIN callers :
         (RecordedSuccess(c) /\ cb.state = "HALF_OPEN" /\ cb'.state = "CLOSED") =>
             cb.successes_since + 1 >= cfg.success_threshold]_vars

\* The calls that were admitted and have not completed yet.
AdmittedInFlight == {c \in DOMAIN callers : callers[c].pc = "running" /\ callers[c].admitted}

\* C37: a breaker never gets stuck in HALF_OPEN: once every admitted call has
\* completed, a breaker that is still HALF_OPEN admits a further probe (whatever
\* success_threshold and half_open_max_calls are, and also when probes ended with
\* excluded exceptions), so it never stays HALF_OPEN rejecting every call.
C37_NeverStuckHalfOpen ==
    (cb.state = "HALF_OPEN" /\ AdmittedInFlight = {}) => can_execute(cb)

\* The on_state_change calls and the alerts a step from one state to another is
\* to make: one of each for a transition, none when the state stays.
callbacks_due(old_state, new_state) ==
    IF old_state = new_state THEN <<>> ELSE << <<old_state, new_state>> >>

alerts_due(old_state, new_state) ==
    IF old_state = new_state THEN <<>>
    ELSE <<[level |-> IF new_state = "OPEN" THEN "CRITICAL" ELSE "INFO",
            old |-> old_state, new |-> new_state]>>

\* C33 as stated: every step that changes the state calls on_state_change once
\* with (old, new) and sends the alert manager one alert, CRITICAL when the new
\* state is OPEN and INFO otherwise; a step that leaves the state makes no call
\* and sends nothing.
C33_EveryTransitionNotifiedAndForwarded ==
    [][/\ cb'.notified = callbacks_due(cb.state, cb'.state)
       /\ cb'.alerts = alerts_due(cb.state, cb'.state)]_vars

\* C33: the same, the alert being sent when the orchestrator has an alert
\* manager and nothing being sent when it has none.
C33_NotifiedOnceForwardedIfManaged ==
    [][/\ cb'.notified = callbacks_due(cb.state, cb'.state)
       /\ cb'.alerts = IF cfg.alert_manager THEN alerts_due(cb.state, cb'.state) ELSE <<>>]_vars

C33_Witness ==
    /\ cfg.alert_manager
    /\ cb.state = "CLOSED"
    /\ cb.notified = << <<"HALF_OPEN", "CLOSED">> >>
    /\ cb.alerts = <<[level |-> "INFO", old |-> "HALF_OPEN", new |-> "CLOSED"]>>
    /\ cb.stats.rejected_calls > 0

\* C40: once heartbeat() has returned the watchdog is not UNRESPONSIVE until
\* heartbeat_timeout has passed again without a heartbeat, also when a check runs
\* at the same time: whenever the watchdog is UNRESPONSIVE, the last heartbeat is
\* older than heartbeat_timeout.
C40_UnresponsiveOnlyWhileOverdue ==
    (watchdog.state = "unresponsive" /\ watchdog.heartbeat_pc = "idle") => overdue(watchdog)

\* C36: every watchdog state transition and every recorded watchdog event is
\* reported to the alert manager, at critical level when the target state is
\* UNRESPONSIVE, DEADLOCKED or CRITICAL: each recorded event has an alert about
\* it, the watchdog's state is the one the last alert announced, and the alerts
\* about those three states are critical.
C36_TransitionsAndEventsReported ==
    /\ \A i \in DOMAIN watchdog.events :
          \E j \in DOMAIN watchdog.alerts :
              watchdog.alerts[j].about = watchdog.events[i].event_type
    /\ watchdog.alerts # <<>> =>
          watchdog.alerts[Len(watchdog.alerts)].about = watchdog.state
    /\ \A j \in DOMAIN watchdog.alerts :
          watchdog.alerts[j].about \in {"unresponsive", "deadlocked", "critical"} =>
              watchdog.alerts[j].level = "CRITICAL"

\* C39: the watchdog's state is always HEALTHY, UNRESPONSIVE or DEADLOCKED,
\* never DEGRADED or CRITICAL, whatever heartbeat(), check(), the monitor loop
\* and reset() do, and heartbeat() changes the state only from UNRESPONSIVE to
\* HEALTHY.
C39_ThreeStatesOnly ==
    /\ [](watchdog.state \in {"healthy", "unresponsive", "deadlocked"})
    /\ [][((Heartbeat \/ HeartbeatTransition) /\ watchdog'.state # watchdog.state) =>
              (watchdog.state = "unresponsive" /\ watchdog'.state = "healthy")]_vars

\* C32: after at least min_samples stable samples a sudden change of cpu_percent
\* between two consecutive samples (the test takes 50 to 95 for one) is found by
\* detect() as a SPIKE on cpu_percent when the value went up and as a DROP when
\* it went down.
C32_SuddenChangeIsSpikeOrDrop ==
    (/\ dret.called
     /\ detector.samples > dcfg.min_samples
     /\ Abs(detector.latest - detector.previous) >= 45) =>
        \E i \in DOMAIN dret.detected :
            dret.detected[i] = Anomaly(IF detector.latest > detector.previous
                                       THEN "spike" ELSE "drop", "cpu_percent")

\* C35: every change of a bucket's token count, the refund of global tokens
\* after a per-client rejection included, is made under the bucket's lock, so
\* no thread changes the global count while another is inside the lock, and
\* with refunds and acquisitions interleaving the tokens handed to accepted
\* requests never exceed the global burst plus the tokens refilled.
C35_RefundUnderLockNoTokenCreated ==
    /\ [](limiter.granted <= lcfg.burst + lcfg.rate * lclock)
    /\ [][\A t \in DOMAIN threads :
            (Refund(t) /\ limiter'.global_bucket.tokens # limiter.global_bucket.tokens)
                => ~GlobalLocked]_vars

=============================================================================
